---------------------------- MODULE Spec2Model ----------------------------
(***************************************************************************)
(* A model of the chat relay backend (backend/src/index.ts, carried in     *)
(* src/README.md lines 554-1190) and of the Convex conversation store      *)
(* (src/convex/conversations.ts).                                          *)
(*                                                                         *)
(* Text is a sequence of one-character strings; "SP" stands for a blank    *)
(* and "NL" for a line feed.  A request is a process with a position pc;   *)
(* every action is one run-to-completion slice of a handler: the code      *)
(* between two awaits, which JavaScript executes without interleaving.     *)
(***************************************************************************)
EXTENDS Integers, Sequences, FiniteSets, TLC

VARIABLES
    env,               \* the configuration read at start-up (env.*)
    now,               \* Date.now()
    rateLimitBuckets,  \* the Map rateLimitBuckets: client key -> bucket
    conversations,     \* the store's "conversations" table, in insertion order
    messages,          \* the store's "messages" table, in insertion order
    req,               \* per request: what the client sent
    pc,                \* per request: position of its handler
    res,               \* per request: the express Response object
    loc,               \* per request: the handler's local variables
    hist,              \* per request: record of what the handler did (observation only)
    rlLog,             \* the rate limiter's decisions, in the order taken (observation only)
    cred,              \* the CredentialGate check on its own: inputs and result
    widget             \* the embedded widget: its submitMessage call and what it shows

vars == <<env, now, rateLimitBuckets, conversations, messages,
          req, pc, res, loc, hist, rlLog, cred, widget>>

relayVars == <<env, now, rateLimitBuckets, conversations, messages,
               req, pc, res, loc, hist, rlLog>>

\* A string that is not there: a missing header, an undefined field.
Absent == <<"(absent)">>

(***************************************************************************)
(* Text helpers                                                            *)
(***************************************************************************)

\* All sequences over S of length at most n.
SeqsUpTo(S, n) == UNION {[1..k -> S] : k \in 0..n}

RECURSIVE Concat(_)
Concat(ss) == IF ss = <<>> THEN <<>> ELSE Head(ss) \o Concat(Tail(ss))

\* The characters String.prototype.trim removes.
IsSpace(c) == c \in {"SP", "NL"}

RECURSIVE TrimStart(_)
TrimStart(s) ==
    IF s # <<>> /\ IsSpace(Head(s)) THEN TrimStart(Tail(s)) ELSE s

RECURSIVE TrimEnd(_)
TrimEnd(s) ==
    IF s # <<>> /\ IsSpace(s[Len(s)]) THEN TrimEnd(SubSeq(s, 1, Len(s) - 1)) ELSE s

\* String.prototype.trim
Trim(s) == TrimEnd(TrimStart(s))

(***************************************************************************)
(* CredentialGate: secureEquals, requireChatApiKey                         *)
(***************************************************************************)

\* Longest secret the credential check is tried on.
MaxKeyLen == 2

KeyChars == {"s", "e", "eacute"}

\* UTF-8 encoding of one character, as Buffer.from(string) produces it.
Utf8(c) ==
    CASE c = "s" -> <<115>>
      [] c = "e" -> <<101>>
      [] c = "eacute" -> <<195, 169>>
      [] c = "a" -> <<97>>
      [] c = "w" -> <<119>>
      [] OTHER   -> <<63>>

\* Buffer.from(str): the UTF-8 bytes of the string.
BufferFromBytes(str) == Concat([i \in 1..Len(str) |-> Utf8(str[i])])

BufferFrom(str) == BufferFromBytes(str)

\* crypto.timingSafeEqual: throws a RangeError when the lengths differ.
\* The result records the value, whether the call threw, and that the
\* comparison primitive ran.
timingSafeEqual(a, b) ==
    IF Len(a) # Len(b)
    THEN [ok |-> FALSE, threw |-> TRUE, compared |-> TRUE]
    ELSE [ok |-> a = b, threw |-> FALSE, compared |-> TRUE]

\* secureEquals without its length guard.
secureEqualsNoLengthGuard(left, right) ==
    timingSafeEqual(BufferFrom(left), BufferFrom(right))

secureEquals(left, right) ==
    LET leftBuffer == BufferFrom(left)
        rightBuffer == BufferFrom(right)
    IN  IF Len(leftBuffer) # Len(rightBuffer)
        THEN [ok |-> FALSE, threw |-> FALSE, compared |-> FALSE]
        ELSE timingSafeEqual(leftBuffer, rightBuffer)

\* The test of requireChatApiKey: !apiKey || !secureEquals(WIDGET_API_KEY, apiKey).
\* apiKey is Absent (null) when neither header is present; !apiKey also holds
\* for the empty string.
chatKeyCheck(expected, apiKey) ==
    IF apiKey = Absent \/ apiKey = <<>>
    THEN [ok |-> FALSE, threw |-> FALSE, compared |-> FALSE]
    ELSE secureEquals(expected, apiKey)

KeyStrings == SeqsUpTo(KeyChars, MaxKeyLen)

NoVerdict == [ok |-> FALSE, threw |-> FALSE, compared |-> FALSE]

CredIdle ==
    [expected |-> <<>>, apiKey |-> Absent, widgetApiKey |-> Absent,
     presented |-> Absent, checked |-> FALSE, out |-> NoVerdict]

\* getChatApiKey: x-api-key ?? x-widget-api-key ?? null.  ?? passes over an
\* absent header only: an empty x-api-key is taken.
getChatApiKey(rq) ==
    IF rq.apiKey # Absent THEN rq.apiKey
    ELSE IF rq.widgetApiKey # Absent THEN rq.widgetApiKey
    ELSE Absent

\* A configured secret and the two headers of a request; presented is what
\* getChatApiKey takes from them.
InitCred ==
    cred \in {[expected |-> e, apiKey |-> a, widgetApiKey |-> w,
               presented |-> getChatApiKey([apiKey |-> a, widgetApiKey |-> w]),
               checked |-> FALSE, out |-> NoVerdict] :
                 e \in KeyStrings \ {<<>>},
                 a \in KeyStrings \cup {Absent},
                 w \in KeyStrings \cup {Absent}}

\* One evaluation of the credential check on the drawn inputs.
Verify ==
    /\ ~cred.checked
    /\ cred' = [cred EXCEPT !.checked = TRUE,
                            !.out = chatKeyCheck(cred.expected, cred.presented)]

(***************************************************************************)
(* Requests and responses                                                  *)
(***************************************************************************)

Reqs == DOMAIN pc

ClientKeys == {"ipA", "ipB", "unknown"}

\* A request that has not been received yet.
NoRequest ==
    [kind |-> "none", ip |-> "", forwardedFor |-> <<>>,
     apiKey |-> Absent, widgetApiKey |-> Absent, adminApiKey |-> Absent,
     sessionId |-> Absent, message |-> Absent,
     limit |-> Absent, conversationId |-> Absent]

\* A fresh express Response: nothing sent, the socket open.  out is what the
\* socket accepted, in order; body is the single JSON body of res.json.
FreshResponse ==
    [statusCode |-> 200, headersSent |-> FALSE, writableEnded |-> FALSE,
     destroyed |-> FALSE, out |-> <<>>, body |-> [kind |-> "none"]]

\* The locals of a handler.
FreshLocals ==
    [now |-> 0, conversationIdRaw |-> 0, history |-> <<>>,
     buffer |-> <<>>, assistantMessage |-> <<>>, finalMessage |-> <<>>,
     persistAt |-> 0]

\* What a handler has done so far: the writeStreamLine calls it made, the
\* store mutations and queries it issued, the upstream requests it opened
\* and the messages of the request body, the assistant messages it
\* appended, the upstream chunks it was handed, whether upstream reported
\* its end, and what made the handler fail.
FreshHistory ==
    [writes |-> <<>>, mutations |-> 0, queries |-> 0, upstream |-> 0,
     request |-> <<>>,
     appended |-> 0, chunks |-> <<>>, eof |-> FALSE, uncaught |-> FALSE,
     cause |-> "none"]

\* res.write(chunk) of Node 20 (the runtime the Dockerfile pins): the first
\* write sends the headers; a write on a response whose socket was destroyed,
\* or that was ended, is dropped and leaves the headers unsent.
ResWrite(resp, line) ==
    IF resp.destroyed \/ resp.writableEnded
    THEN resp
    ELSE [resp EXCEPT !.headersSent = TRUE, !.out = Append(@, line)]

\* writeStreamLine(res, payload): res.write(JSON.stringify(payload) + "\n"),
\* one line per call.
writeStreamLine(resp, payload) == ResWrite(resp, payload)

\* res.end()
ResEnd(resp) == [resp EXCEPT !.writableEnded = TRUE, !.headersSent = TRUE]

\* res.status(code).json(body)
ResJson(resp, code, body) ==
    [resp EXCEPT !.statusCode = code,
                 !.body = IF resp.destroyed THEN @ ELSE body,
                 !.headersSent = @ \/ ~resp.destroyed,
                 !.writableEnded = TRUE]

(***************************************************************************)
(* RateLimiter: getClientIp, isWithinRateLimit                             *)
(***************************************************************************)

\* rateLimitBuckets.get(key) of a key that has no bucket.
NoBucket == [count |-> 0, resetAt |-> -1]

\* getClientIp: the first entry of x-forwarded-for when the header is there,
\* else the socket address; "unknown" when that is blank.
getClientIp(rq) ==
    IF rq.forwardedFor # <<>>
    THEN (IF Head(rq.forwardedFor) # "" THEN Head(rq.forwardedFor) ELSE "unknown")
    ELSE (IF rq.ip # "" THEN rq.ip ELSE "unknown")

\* isWithinRateLimit with the comparison count < max.
isWithinRateLimitStrict(buckets, key, t) ==
    LET existing == buckets[key]
    IN  IF existing = NoBucket \/ t > existing.resetAt
        THEN [buckets |-> [buckets EXCEPT ![key] =
                              [count |-> 1, resetAt |-> t + env.RATE_LIMIT_WINDOW_MS]],
              within |-> TRUE]
        ELSE [buckets |-> [buckets EXCEPT ![key].count = @ + 1],
              within |-> existing.count + 1 < env.RATE_LIMIT_MAX_REQUESTS]

\* isWithinRateLimit that counts admitted requests only.
isWithinRateLimitNoCountOnReject(buckets, key, t) ==
    LET existing == buckets[key]
    IN  IF existing = NoBucket \/ t > existing.resetAt
        THEN [buckets |-> [buckets EXCEPT ![key] =
                              [count |-> 1, resetAt |-> t + env.RATE_LIMIT_WINDOW_MS]],
              within |-> TRUE]
        ELSE IF existing.count + 1 <= env.RATE_LIMIT_MAX_REQUESTS
             THEN [buckets |-> [buckets EXCEPT ![key].count = @ + 1], within |-> TRUE]
             ELSE [buckets |-> buckets, within |-> FALSE]

\* isWithinRateLimit that starts a new window at the reset time already:
\* now >= existing.resetAt.
isWithinRateLimitResetAtBoundary(buckets, key, t) ==
    LET existing == buckets[key]
    IN  IF existing = NoBucket \/ t >= existing.resetAt
        THEN [buckets |-> [buckets EXCEPT ![key] =
                              [count |-> 1, resetAt |-> t + env.RATE_LIMIT_WINDOW_MS]],
              within |-> TRUE]
        ELSE [buckets |-> [buckets EXCEPT ![key].count = @ + 1],
              within |-> existing.count + 1 <= env.RATE_LIMIT_MAX_REQUESTS]

\* isWithinRateLimit(req) at time t: the new map and the verdict.
isWithinRateLimit(buckets, key, t) ==
    LET existing == buckets[key]
    IN  IF existing = NoBucket \/ t > existing.resetAt
        THEN [buckets |-> [buckets EXCEPT ![key] =
                              [count |-> 1, resetAt |-> t + env.RATE_LIMIT_WINDOW_MS]],
              within |-> TRUE]
        ELSE [buckets |-> [buckets EXCEPT ![key].count = @ + 1],
              within |-> existing.count + 1 <= env.RATE_LIMIT_MAX_REQUESTS]

(***************************************************************************)
(* Input validation: chatRequestSchema                                     *)
(***************************************************************************)

MaxSessionIdLength == 128
MaxMessageLength == 4000

\* The characters of [A-Za-z0-9._:-] that the model uses.
SessionIdChars == {"a", "b", "c", ".", "_", ":", "-", "0"}

\* The length of a string, in UTF-16 code units as zod counts it.
StrLen(s) == Len(s)

\* chatRequestSchema without the upper bound of the message.
chatRequestValidUnboundedMessage(rq) ==
    /\ rq.sessionId # Absent
    /\ StrLen(rq.sessionId) >= 1
    /\ StrLen(rq.sessionId) <= MaxSessionIdLength
    /\ \A i \in 1..Len(rq.sessionId) : rq.sessionId[i] \in SessionIdChars
    /\ rq.message # Absent
    /\ StrLen(rq.message) >= 1

\* chatRequestSchema.safeParse(req.body).success
chatRequestValid(rq) ==
    /\ rq.sessionId # Absent
    /\ StrLen(rq.sessionId) >= 1
    /\ StrLen(rq.sessionId) <= MaxSessionIdLength
    /\ \A i \in 1..Len(rq.sessionId) : rq.sessionId[i] \in SessionIdChars
    /\ rq.message # Absent
    /\ StrLen(rq.message) >= 1
    /\ StrLen(rq.message) <= MaxMessageLength

\* The JSON bodies of res.json.
ErrorBody(text, withDetails) == [kind |-> "error", error |-> text, details |-> withDetails]
ChatBody(id, text) == [kind |-> "chat", conversationId |-> id, message |-> text]

(***************************************************************************)
(* ConversationStore: src/convex/conversations.ts.  Each mutation or query *)
(* is one transaction.  A conversation's key is its insertion number.      *)
(***************************************************************************)

PreviewLength == 500
\* limit of the getHistoryForModel call of the Convex action
ActionHistoryLimit == 30

\* String.prototype.slice(0, n)
SliceTo(s, n) == SubSeq(s, 1, IF Len(s) < n THEN Len(s) ELSE n)

\* getOrCreateConversation without the lookup.
getOrCreateConversationNoLookup(convs, sessionId, t) ==
    [threw |-> FALSE,
     conversations |-> Append(convs,
         [sessionId |-> sessionId, createdAt |-> t, updatedAt |-> t,
          lastMessage |-> <<>>]),
     id |-> Len(convs) + 1]

\* getOrCreateConversation that starts a new conversation when the one it
\* finds was last updated before now.
getOrCreateConversationExpiring(convs, sessionId, t) ==
    LET existing == {i \in DOMAIN convs :
                        convs[i].sessionId = sessionId /\ convs[i].updatedAt >= t}
    IN  IF existing # {}
        THEN [threw |-> FALSE, conversations |-> convs,
              id |-> CHOOSE i \in existing : TRUE]
        ELSE [threw |-> FALSE,
              conversations |-> Append(convs,
                  [sessionId |-> sessionId, createdAt |-> t, updatedAt |-> t,
                   lastMessage |-> <<>>]),
              id |-> Len(convs) + 1]

\* getOrCreateConversation: look the session up by the by_session_id index
\* (.unique() throws when two rows match), insert when there is none.
getOrCreateConversation(convs, sessionId, t) ==
    LET existing == {i \in DOMAIN convs : convs[i].sessionId = sessionId}
    IN  IF Cardinality(existing) > 1
        THEN [threw |-> TRUE, conversations |-> convs, id |-> 0]
        ELSE IF existing # {}
        THEN [threw |-> FALSE, conversations |-> convs,
              id |-> CHOOSE i \in existing : TRUE]
        ELSE [threw |-> FALSE,
              conversations |-> Append(convs,
                  [sessionId |-> sessionId, createdAt |-> t, updatedAt |-> t,
                   lastMessage |-> <<>>]),
              id |-> Len(convs) + 1]

\* addMessage: insert the message, then patch the conversation.
addMessage(convs, msgs, conversationId, role, content, createdAt) ==
    [messages |-> Append(msgs,
        [conversationId |-> conversationId, role |-> role,
         content |-> content, createdAt |-> createdAt]),
     conversations |-> [convs EXCEPT ![conversationId] =
        [@ EXCEPT !.updatedAt = createdAt,
                  !.lastMessage = SliceTo(content, PreviewLength)]]]

\* The rows of a conversation in the order of the index
\* by_conversation_id_created_at: by createdAt, then by insertion.
RECURSIVE SortByCreatedAt(_, _)
SortByCreatedAt(msgs, rows) ==
    IF rows = {} THEN <<>>
    ELSE LET first == CHOOSE i \in rows : \A j \in rows :
                          \/ msgs[i].createdAt < msgs[j].createdAt
                          \/ (msgs[i].createdAt = msgs[j].createdAt /\ i <= j)
         IN  <<msgs[first]>> \o SortByCreatedAt(msgs, rows \ {first})

\* The rows of a conversation in the order of the index by_conversation_id:
\* by insertion.
RECURSIVE SortByInsertion(_, _)
SortByInsertion(msgs, rows) ==
    IF rows = {} THEN <<>>
    ELSE LET first == CHOOSE i \in rows : \A j \in rows : i <= j
         IN  <<msgs[first]>> \o SortByInsertion(msgs, rows \ {first})

\* messagesOf reading the index by_conversation_id.
messagesOfByConversationId(msgs, conversationId) ==
    SortByInsertion(msgs, {i \in DOMAIN msgs : msgs[i].conversationId = conversationId})

\* .withIndex("by_conversation_id_created_at", q => q.eq("conversationId", id))
\* .collect()
messagesOf(msgs, conversationId) ==
    SortByCreatedAt(msgs, {i \in DOMAIN msgs : msgs[i].conversationId = conversationId})

\* getHistoryForModel slicing from the front: normalized.slice(0, limit).
getHistoryForModelFromFront(msgs, conversationId, limit) ==
    LET collected == messagesOf(msgs, conversationId)
        normalized == [i \in 1..Len(collected) |->
                          [role |-> collected[i].role, content |-> collected[i].content]]
    IN  IF limit = <<>> \/ limit[1] = 0 \/ limit[1] <= 0 \/ Len(normalized) <= limit[1]
        THEN normalized
        ELSE SubSeq(normalized, 1, limit[1])

\* getHistoryForModel with the slice one place early: the newest message is
\* left out.
getHistoryForModelOffByOne(msgs, conversationId, limit) ==
    LET collected == messagesOf(msgs, conversationId)
        normalized == [i \in 1..Len(collected) |->
                          [role |-> collected[i].role, content |-> collected[i].content]]
    IN  IF limit = <<>> \/ limit[1] = 0 \/ limit[1] <= 0 \/ Len(normalized) <= limit[1]
        THEN normalized
        ELSE SubSeq(normalized, Len(normalized) - limit[1], Len(normalized) - 1)

\* getHistoryForModel: role and content of the conversation's messages,
\* the last `limit` of them when there are more.  limit is optional: <<>>
\* when the argument is absent, <<n>> when it is the integer n.
getHistoryForModel(msgs, conversationId, limit) ==
    LET collected == messagesOf(msgs, conversationId)
        normalized == [i \in 1..Len(collected) |->
                          [role |-> collected[i].role, content |-> collected[i].content]]
    IN  IF limit = <<>> \/ limit[1] = 0 \/ limit[1] <= 0 \/ Len(normalized) <= limit[1]
        THEN normalized
        ELSE SubSeq(normalized, Len(normalized) - limit[1] + 1, Len(normalized))

\* getConversationThread: the conversation and its messages, or null.
getConversationThread(convs, msgs, conversationId) ==
    IF conversationId \notin DOMAIN convs THEN [isNull |-> TRUE]
    ELSE [isNull |-> FALSE,
          conversation |-> convs[conversationId],
          messages |-> messagesOf(msgs, conversationId)]

(***************************************************************************)
(* UpstreamStreamParser: the body of generateAssistantMessage.             *)
(* Upstream text is a sequence of lexemes: "NL", "SP", the marker "data:", *)
(* the sentinel "[DONE]", a JSON document, or text that is not JSON.       *)
(***************************************************************************)

\* JSON documents: a chunk whose delta carries the content a, b or a blank,
\* a chunk with empty content, a chunk without content, and the literal null.
JsonDocs == {"J:a", "J:b", "J:SP", "J:", "J:-", "J:null"}

\* parsed.choices?.[0]?.delta?.content of a JSON document; Absent is undefined.
deltaContent(doc) ==
    CASE doc = "J:a"  -> <<"a">>
      [] doc = "J:b"  -> <<"b">>
      [] doc = "J:SP" -> <<"SP">>
      [] doc = "J:"   -> <<>>
      [] OTHER        -> Absent

\* JSON.parse(data) succeeds: data is one JSON document.
jsonParses(data) == Len(data) = 1 /\ data[1] \in JsonDocs

\* String.prototype.split("\n")
RECURSIVE SplitLines(_)
SplitLines(s) ==
    IF \A i \in 1..Len(s) : s[i] # "NL" THEN <<s>>
    ELSE LET n == CHOOSE i \in 1..Len(s) :
                     s[i] = "NL" /\ \A j \in 1..(i - 1) : s[j] # "NL"
         IN  <<SubSeq(s, 1, n - 1)>> \o SplitLines(SubSeq(s, n + 1, Len(s)))

\* One pass of the loop body of processEvent over a line: the token it
\* yields (<<>>: none; a token is never empty), and whether it threw:
\* parsed.choices of the JSON value null is a TypeError, outside the try.
processLine(rawLine) ==
    LET line == Trim(rawLine)
        data == Trim(Tail(line))
    IN  IF line = <<>> \/ Head(line) # "data:" THEN [token |-> <<>>, threw |-> FALSE]
        ELSE IF data = <<"[DONE]">> THEN [token |-> <<>>, threw |-> FALSE]
        ELSE IF ~jsonParses(data) THEN [token |-> <<>>, threw |-> FALSE]
        ELSE IF data[1] = "J:null" THEN [token |-> <<>>, threw |-> TRUE]
        ELSE IF deltaContent(data[1]) = Absent \/ deltaContent(data[1]) = <<>>
             THEN [token |-> <<>>, threw |-> FALSE]
        ELSE [token |-> deltaContent(data[1]), threw |-> FALSE]

\* processEvent over the lines of an event: the tokens yielded, in order, up
\* to the end or to the line that threw.
RECURSIVE processLines(_)
processLines(lines) ==
    IF lines = <<>> THEN [tokens |-> <<>>, threw |-> FALSE]
    ELSE LET one == processLine(Head(lines))
             rest == processLines(Tail(lines))
         IN  IF one.threw THEN [tokens |-> <<>>, threw |-> TRUE]
             ELSE [tokens |-> (IF one.token = <<>> THEN <<>> ELSE <<one.token>>)
                                 \o rest.tokens,
                   threw |-> rest.threw]

processEvent(rawEvent) == processLines(SplitLines(rawEvent))

\* buffer.indexOf("\n\n"), counted from 1; 0 when there is none.
indexOfBoundary(buffer) ==
    LET hits == {i \in 1..(Len(buffer) - 1) : buffer[i] = "NL" /\ buffer[i + 1] = "NL"}
    IN  IF hits = {} THEN 0 ELSE CHOOSE i \in hits : \A j \in hits : i <= j

\* The inner loop as an if: only the first complete event is cut off.
drainBufferFirstOnly(buffer) ==
    LET boundary == indexOfBoundary(buffer)
    IN  IF boundary = 0 THEN [buffer |-> buffer, tokens |-> <<>>, threw |-> FALSE]
        ELSE [buffer |-> SubSeq(buffer, boundary + 2, Len(buffer)),
              tokens |-> processEvent(SubSeq(buffer, 1, boundary - 1)).tokens,
              threw |-> processEvent(SubSeq(buffer, 1, boundary - 1)).threw]

\* The inner while loop: cut every complete event off the buffer and process it.
RECURSIVE drainBuffer(_)
drainBuffer(buffer) ==
    LET boundary == indexOfBoundary(buffer)
    IN  IF boundary = 0 THEN [buffer |-> buffer, tokens |-> <<>>, threw |-> FALSE]
        ELSE LET ev == processEvent(SubSeq(buffer, 1, boundary - 1))
                 rest == drainBuffer(SubSeq(buffer, boundary + 2, Len(buffer)))
             IN  IF ev.threw
                 THEN [buffer |-> SubSeq(buffer, boundary + 2, Len(buffer)),
                       tokens |-> ev.tokens, threw |-> TRUE]
                 ELSE [buffer |-> rest.buffer, tokens |-> ev.tokens \o rest.tokens,
                       threw |-> rest.threw]

\* The end of the stream without the pass over what is left in the buffer.
processTrailingDropped(buffer) == [tokens |-> <<>>, threw |-> FALSE]

\* After end of stream: if (buffer.trim()) processEvent(buffer).
processTrailing(buffer) ==
    IF Trim(buffer) # <<>> THEN processEvent(buffer)
    ELSE [tokens |-> <<>>, threw |-> FALSE]

Fallback == <<"I could not generate a response right now.">>

\* The return value without the trim.
finalMessageUntrimmed(assistantMessage) ==
    IF Trim(assistantMessage) = <<>> THEN Fallback ELSE assistantMessage

\* The return value without the fallback.
finalMessageNoFallback(assistantMessage) == Trim(assistantMessage)

\* return assistantMessage.trim() || "I could not generate a response right now."
finalMessageOf(assistantMessage) ==
    IF Trim(assistantMessage) = <<>> THEN Fallback ELSE Trim(assistantMessage)

(***************************************************************************)
(* The chat handlers up to their first await                               *)
(* (POST /v1/chat, handleStreamingChat for POST /chat and /v1/chat/stream) *)
(***************************************************************************)

\* A rejection that sends its JSON body and, its return missing, lets the
\* handler run on into prepareConversationData.
RejectWithoutReturn(r, code, body) ==
    /\ res' = [res EXCEPT ![r] = ResJson(@, code, body)]
    /\ pc' = [pc EXCEPT ![r] = "getOrCreate"]
    /\ UNCHANGED <<loc, hist>>

\* The handler of r sends one JSON body and returns.
Reject(r, code, body) ==
    /\ res' = [res EXCEPT ![r] = ResJson(@, code, body)]
    /\ pc' = [pc EXCEPT ![r] = "done"]
    /\ UNCHANGED <<loc, hist>>

\* The entry of a chat handler that leaves the validation details out in
\* production only: env.NODE_ENV !== "production".
ChatEntryDetailsOutsideProduction(r, rq) ==
    /\ pc[r] = "idle"
    /\ \A q \in Reqs : q < r => pc[q] # "idle"
    /\ rq.kind \in {"stream", "chat"}
    /\ LET rl == isWithinRateLimit(rateLimitBuckets, getClientIp(rq), now)
           auth == chatKeyCheck(env.WIDGET_API_KEY, getChatApiKey(rq))
       IN  /\ req' = [req EXCEPT ![r] = rq]
           /\ rateLimitBuckets' = rl.buckets
           /\ rlLog' = Append(rlLog, [key |-> getClientIp(rq), at |-> now,
                                      within |-> rl.within])
           /\ IF ~rl.within
              THEN Reject(r, 429, ErrorBody("Too many requests", FALSE))
              ELSE IF auth.threw
              THEN /\ pc' = [pc EXCEPT ![r] = "done"]
                   /\ hist' = [hist EXCEPT ![r].uncaught = TRUE]
                   /\ UNCHANGED <<res, loc>>
              ELSE IF ~auth.ok
              THEN Reject(r, 401, ErrorBody("Unauthorized", FALSE))
              ELSE IF ~chatRequestValid(rq)
              THEN Reject(r, 400, ErrorBody("Invalid request payload",
                                            env.NODE_ENV # "production"))
              ELSE /\ pc' = [pc EXCEPT ![r] = "getOrCreate"]
                   /\ loc' = [loc EXCEPT ![r].now = now]
                   /\ UNCHANGED <<res, hist>>
    /\ UNCHANGED <<env, now, conversations, messages, cred, widget>>

\* The entry of a chat handler with the credential checked before the rate
\* limit: a request without the credential does not reach the limiter.
ChatEntryCredentialFirst(r, rq) ==
    /\ pc[r] = "idle"
    /\ \A q \in Reqs : q < r => pc[q] # "idle"
    /\ rq.kind \in {"stream", "chat"}
    /\ LET rl == isWithinRateLimit(rateLimitBuckets, getClientIp(rq), now)
           auth == chatKeyCheck(env.WIDGET_API_KEY, getChatApiKey(rq))
       IN  /\ req' = [req EXCEPT ![r] = rq]
           /\ rateLimitBuckets' = IF auth.ok THEN rl.buckets ELSE rateLimitBuckets
           /\ rlLog' = Append(rlLog, [key |-> getClientIp(rq), at |-> now,
                                      within |-> rl.within])
           /\ IF auth.threw
              THEN /\ pc' = [pc EXCEPT ![r] = "done"]
                   /\ hist' = [hist EXCEPT ![r].uncaught = TRUE]
                   /\ UNCHANGED <<res, loc>>
              ELSE IF ~auth.ok
              THEN Reject(r, 401, ErrorBody("Unauthorized", FALSE))
              ELSE IF ~rl.within
              THEN Reject(r, 429, ErrorBody("Too many requests", FALSE))
              ELSE IF ~chatRequestValid(rq)
              THEN Reject(r, 400, ErrorBody("Invalid request payload",
                                            env.NODE_ENV = "development"))
              ELSE /\ pc' = [pc EXCEPT ![r] = "getOrCreate"]
                   /\ loc' = [loc EXCEPT ![r].now = now]
                   /\ UNCHANGED <<res, hist>>
    /\ UNCHANGED <<env, now, conversations, messages, cred, widget>>

\* Request r arrives with input rq and its handler runs up to the first await:
\* rate limit, credential, body validation, then the getOrCreateConversation
\* call of prepareConversationData is issued.  Request ids are handed out in
\* arrival order.
ChatEntry(r, rq) ==
    /\ pc[r] = "idle"
    /\ \A q \in Reqs : q < r => pc[q] # "idle"
    /\ rq.kind \in {"stream", "chat"}
    /\ LET rl == isWithinRateLimit(rateLimitBuckets, getClientIp(rq), now)
           auth == chatKeyCheck(env.WIDGET_API_KEY, getChatApiKey(rq))
       IN  /\ req' = [req EXCEPT ![r] = rq]
           /\ rateLimitBuckets' = rl.buckets
           /\ rlLog' = Append(rlLog, [key |-> getClientIp(rq), at |-> now,
                                      within |-> rl.within])
           /\ IF ~rl.within
              THEN Reject(r, 429, ErrorBody("Too many requests", FALSE))
              ELSE IF auth.threw
              THEN /\ pc' = [pc EXCEPT ![r] = "done"]
                   /\ hist' = [hist EXCEPT ![r].uncaught = TRUE]
                   /\ UNCHANGED <<res, loc>>
              ELSE IF ~auth.ok
              THEN Reject(r, 401, ErrorBody("Unauthorized", FALSE))
              ELSE IF ~chatRequestValid(rq)
              THEN Reject(r, 400, ErrorBody("Invalid request payload",
                                            env.NODE_ENV = "development"))
              ELSE /\ pc' = [pc EXCEPT ![r] = "getOrCreate"]
                   /\ loc' = [loc EXCEPT ![r].now = now]
                   /\ UNCHANGED <<res, hist>>
    /\ UNCHANGED <<env, now, conversations, messages, cred, widget>>

\* Time passes, up to the time limit the clock is followed to.
Tick(limit) ==
    /\ now < limit
    /\ now' = now + 1
    /\ UNCHANGED <<env, rateLimitBuckets, conversations, messages,
                   req, pc, res, loc, hist, rlLog, cred, widget>>

\* The relay at start-up with the configuration e and the request ids ids.
InitRelay(e, ids) ==
    /\ env = e
    /\ now = 0
    /\ rateLimitBuckets = [k \in ClientKeys |-> NoBucket]
    /\ conversations = <<>>
    /\ messages = <<>>
    /\ req = [r \in ids |-> NoRequest]
    /\ pc = [r \in ids |-> "idle"]
    /\ res = [r \in ids |-> FreshResponse]
    /\ loc = [r \in ids |-> FreshLocals]
    /\ hist = [r \in ids |-> FreshHistory]
    /\ rlLog = <<>>

GoodKey == <<"s", "e">>

BaseEnv ==
    [RATE_LIMIT_WINDOW_MS |-> 2, RATE_LIMIT_MAX_REQUESTS |-> 2,
     WIDGET_API_KEY |-> GoodKey, ADMIN_API_KEY |-> <<>>,
     NODE_ENV |-> "production", MAX_HISTORY_MESSAGES |-> 2]

(***************************************************************************)
(* The chat handlers after their first await                               *)
(***************************************************************************)

StartEvent(id) == [type |-> "start", conversationId |-> id]
TokenEvent(token) == [type |-> "token", token |-> token]
DoneEvent(text, id) == [type |-> "done", message |-> text, conversationId |-> id]
ErrorEvent == [type |-> "error", error |-> "Internal server error"]

\* A guarded write of the streaming handler: if (!res.writableEnded)
\* writeStreamLine(res, payload).  Gives the response and the calls made.
GuardedWrite(st, payload) ==
    IF st.res.writableEnded THEN st
    ELSE [res |-> writeStreamLine(st.res, payload),
          writes |-> Append(st.writes, payload)]

RECURSIVE WriteTokens(_, _)
WriteTokens(st, tokens) ==
    IF tokens = <<>> THEN st
    ELSE WriteTokens(GuardedWrite(st, TokenEvent(Head(tokens))), Tail(tokens))

\* What the handler of r has on its response and in its record of calls.
Outward(r) == [res |-> res[r], writes |-> hist[r].writes]

\* The message of an Error that reaches a catch block, word by word: what
\* the Convex client reports, a Convex error that names the argument, and
\* the error of generateAssistantMessage with the upstream body in it.
ErrorTexts ==
    {<<"Server", "Error">>,
     <<"Invalid", "argument", "id">>,
     <<"OpenAI", "request", "failed", "(401):", "sk-secret">>}

\* The TypeError of reading a property of null.
TypeErrorText == <<"Cannot", "read", "properties", "of", "null">>

\* The catch block of handleStreamingChat without the headersSent test.
CaughtAlwaysEvent(kind, st, error) ==
    LET wrote == GuardedWrite(st, ErrorEvent)
    IN  [res |-> ResEnd(wrote.res), writes |-> wrote.writes]

\* The Convex action `chat` has no response object: what it returns, or that
\* it threw, is kept in the body of its entry of res.
Thrown(resp) == [resp EXCEPT !.body = [kind |-> "thrown"], !.writableEnded = TRUE]
Returned(resp, value) == [resp EXCEPT !.body = value, !.writableEnded = TRUE]

\* The catch block of POST /v1/chat in both handlers.
CaughtJsonOnly(kind, st, error) ==
    IF kind = "action" THEN [res |-> Thrown(st.res), writes |-> st.writes]
    ELSE [res |-> ResJson(st.res, 500, ErrorBody("Internal server error", FALSE)),
          writes |-> st.writes]

\* The catch blocks with the message of the error in what they send.
CaughtWithDetails(kind, st, error) ==
    IF kind = "action" THEN [res |-> Thrown(st.res), writes |-> st.writes]
    ELSE IF kind = "chat" \/ ~st.res.headersSent
    THEN [res |-> ResJson(st.res, 500, [kind |-> "error", error |-> error,
                                        details |-> FALSE]),
          writes |-> st.writes]
    ELSE IF ~st.res.writableEnded
    THEN [res |-> ResEnd(writeStreamLine(st.res, [type |-> "error", error |-> error])),
          writes |-> Append(st.writes, [type |-> "error", error |-> error])]
    ELSE st

\* The catch blocks with the error event written and the response left open.
CaughtWithoutEnd(kind, st, error) ==
    IF kind = "action" THEN [res |-> Thrown(st.res), writes |-> st.writes]
    ELSE IF kind = "chat" \/ ~st.res.headersSent
    THEN [res |-> ResJson(st.res, 500, ErrorBody("Internal server error", FALSE)),
          writes |-> st.writes]
    ELSE IF ~st.res.writableEnded
    THEN [res |-> writeStreamLine(st.res, ErrorEvent),
          writes |-> Append(st.writes, ErrorEvent)]
    ELSE st

\* The catch blocks: POST /v1/chat answers 500; handleStreamingChat answers
\* 500 when no header was sent, else writes the error event and ends.  The
\* Convex action has no catch block: its promise rejects.
Caught(kind, st, error) ==
    IF kind = "action" THEN [res |-> Thrown(st.res), writes |-> st.writes]
    ELSE IF kind = "chat" \/ ~st.res.headersSent
    THEN [res |-> ResJson(st.res, 500, ErrorBody("Internal server error", FALSE)),
          writes |-> st.writes]
    ELSE IF ~st.res.writableEnded
    THEN [res |-> ResEnd(writeStreamLine(st.res, ErrorEvent)),
          writes |-> Append(st.writes, ErrorEvent)]
    ELSE st

\* An await of r's handler rejects with an Error of message error: the
\* catch block runs.
Fail(r, why, error) ==
    /\ res' = [res EXCEPT ![r] = Caught(req[r].kind, Outward(r), error).res]
    /\ hist' = [hist EXCEPT ![r].writes = Caught(req[r].kind, Outward(r), error).writes,
                            ![r].cause = why]
    /\ pc' = [pc EXCEPT ![r] = "done"]

\* The start of the streaming response without its start event.
BeganWithoutStart(kind, st, id) ==
    IF kind = "stream" THEN [res |-> [st.res EXCEPT !.statusCode = 200], writes |-> st.writes]
    ELSE st

\* After prepareConversationData: handleStreamingChat sets the status and
\* the headers and writes the start event; POST /v1/chat sends nothing yet.
Began(kind, st, id) ==
    IF kind = "stream"
    THEN [res |-> writeStreamLine([st.res EXCEPT !.statusCode = 200], StartEvent(id)),
          writes |-> Append(st.writes, StartEvent(id))]
    ELSE st

\* getOrCreateConversation run outside a transaction: its lookup does not
\* see the conversation another request has inserted and not yet used.
StoreGetOrCreateUnserialized(r) ==
    /\ pc[r] = "getOrCreate"
    /\ LET unseen == {loc[q].conversationIdRaw : q \in {p \in Reqs : pc[p] = "addUser"}}
           seen == {i \in DOMAIN conversations :
                       conversations[i].sessionId = req[r].sessionId /\ i \notin unseen}
       IN  /\ conversations' =
                  IF seen # {} THEN conversations
                  ELSE Append(conversations,
                              [sessionId |-> req[r].sessionId, createdAt |-> loc[r].now,
                               updatedAt |-> loc[r].now, lastMessage |-> <<>>])
           /\ loc' = [loc EXCEPT ![r].conversationIdRaw =
                         IF seen # {} THEN CHOOSE i \in seen : TRUE
                         ELSE Len(conversations) + 1]
           /\ hist' = [hist EXCEPT ![r].mutations = @ + 1]
           /\ pc' = [pc EXCEPT ![r] = "addUser"]
           /\ UNCHANGED res
    /\ UNCHANGED <<env, now, rateLimitBuckets, messages, req, rlLog, cred, widget>>

\* The store runs the getOrCreateConversation call of prepareConversationData;
\* the handler goes on to issue addMessage for the user turn.
StoreGetOrCreate(r) ==
    /\ pc[r] = "getOrCreate"
    /\ LET got == getOrCreateConversation(conversations, req[r].sessionId, loc[r].now)
       IN  IF got.threw
           THEN /\ \E error \in ErrorTexts : Fail(r, "store", error)
                /\ UNCHANGED <<conversations, loc>>
           ELSE /\ conversations' = got.conversations
                /\ loc' = [loc EXCEPT ![r].conversationIdRaw = got.id]
                /\ hist' = [hist EXCEPT ![r].mutations = @ + 1]
                /\ pc' = [pc EXCEPT ![r] = "addUser"]
                /\ UNCHANGED res
    /\ UNCHANGED <<env, now, rateLimitBuckets, messages, req, rlLog, cred, widget>>

\* The store runs addMessage for the user turn; the handler goes on to issue
\* the getHistoryForModel query.
StoreAddUserMessage(r) ==
    /\ pc[r] = "addUser"
    /\ LET put == addMessage(conversations, messages, loc[r].conversationIdRaw,
                             "user", req[r].message, loc[r].now)
       IN  /\ conversations' = put.conversations
           /\ messages' = put.messages
    /\ hist' = [hist EXCEPT ![r].mutations = @ + 1]
    /\ pc' = [pc EXCEPT ![r] = "history"]
    /\ UNCHANGED <<env, now, rateLimitBuckets, req, res, loc, rlLog, cred, widget>>

\* The system instruction of the relay and of the Convex action.
SystemInstruction(kind) ==
    IF kind = "action"
    THEN <<"You are a concise and helpful AI assistant embedded in a website chat widget.">>
    ELSE <<"You are a concise and helpful AI assistant embedded in a support chat widget.">>

\* The messages of the upstream request with the system instruction put
\* after the history.
requestMessagesSystemLast(kind, history) ==
    [i \in 1..Len(history) |-> [role |-> history[i].role, content |-> history[i].content]]
    \o <<[role |-> "system", content |-> SystemInstruction(kind)]>>

\* The messages of the upstream request body: the system instruction, then
\* role and content of each item of the history.
requestMessages(kind, history) ==
    <<[role |-> "system", content |-> SystemInstruction(kind)]>>
    \o [i \in 1..Len(history) |-> [role |-> history[i].role, content |-> history[i].content]]

\* The store answers getHistoryForModel.  handleStreamingChat then sets the
\* status and the headers and writes the start event; both handlers then
\* call generateAssistantMessage, which opens the upstream request.
StoreGetHistory(r) ==
    /\ pc[r] = "history"
    /\ loc' = [loc EXCEPT ![r].history =
                  getHistoryForModel(messages, loc[r].conversationIdRaw,
                                     IF req[r].kind = "action" THEN <<ActionHistoryLimit>>
                                     ELSE <<env.MAX_HISTORY_MESSAGES>>)]
    /\ LET st == Began(req[r].kind, Outward(r), loc[r].conversationIdRaw)
       IN  /\ res' = [res EXCEPT ![r] = st.res]
           /\ hist' = [hist EXCEPT ![r].writes = st.writes,
                                   ![r].queries = @ + 1,
                                   ![r].upstream = @ + 1,
                                   ![r].request = requestMessages(req[r].kind,
                                                                  loc'[r].history)]
    /\ pc' = [pc EXCEPT ![r] = "fetch"]
    /\ UNCHANGED <<env, now, rateLimitBuckets, conversations, messages, req, rlLog, cred, widget>>

\* A rejected store call in a handler that sends the final message before
\* it awaits the append: the failed append comes after the answer.
StoreFailsAfterAnswer(r) ==
    /\ pc[r] \in {"getOrCreate", "addUser", "history", "persist"}
    /\ IF pc[r] = "persist"
       THEN LET done == DoneEvent(loc[r].finalMessage, loc[r].conversationIdRaw)
                st == IF req[r].kind = "chat"
                      THEN [res |-> ResJson(res[r], 200,
                                            ChatBody(loc[r].conversationIdRaw,
                                                     loc[r].finalMessage)),
                            writes |-> hist[r].writes]
                      ELSE [res |-> ResEnd(writeStreamLine(res[r], done)),
                            writes |-> Append(hist[r].writes, done)]
            IN  /\ res' = [res EXCEPT ![r] = st.res]
                /\ hist' = [hist EXCEPT ![r].writes = st.writes,
                                        ![r].cause = "store"]
                /\ pc' = [pc EXCEPT ![r] = "done"]
       ELSE \E error \in ErrorTexts : Fail(r, "store", error)
    /\ UNCHANGED <<env, now, rateLimitBuckets, conversations, messages, req, loc,
                   rlLog, cred, widget>>

\* A store call of r's handler rejects; the store is left as it was.
StoreFails(r) ==
    /\ pc[r] \in {"getOrCreate", "addUser", "history", "persist"}
    /\ \E error \in ErrorTexts : Fail(r, "store", error)
    /\ UNCHANGED <<env, now, rateLimitBuckets, conversations, messages, req, loc,
                   rlLog, cred, widget>>

\* Upstream answers 2xx with a body: the read loop starts.
FetchResponds(r) ==
    /\ pc[r] = "fetch"
    /\ req[r].kind \in {"stream", "chat"}
    /\ pc' = [pc EXCEPT ![r] = "read"]
    /\ UNCHANGED <<env, now, rateLimitBuckets, conversations, messages, req, res,
                   loc, hist, rlLog, cred, widget>>

\* The upstream failure with a compensating delete of the user turn.
FetchFailsRollingBack(r) ==
    /\ pc[r] = "fetch"
    /\ \E error \in ErrorTexts : Fail(r, "upstream", error)
    /\ messages' = SelectSeq(messages,
                             LAMBDA m : m.conversationId # loc[r].conversationIdRaw)
    /\ UNCHANGED <<env, now, rateLimitBuckets, conversations, req, loc, rlLog, cred, widget>>

\* The upstream failure in a handler that opens the upstream request a
\* second time before it gives up.
FetchFailsRetrying(r) ==
    /\ pc[r] = "fetch"
    /\ IF hist[r].upstream < 2
       THEN /\ hist' = [hist EXCEPT ![r].upstream = @ + 1]
            /\ UNCHANGED <<res, pc>>
       ELSE \E error \in ErrorTexts : Fail(r, "upstream", error)
    /\ UNCHANGED <<env, now, rateLimitBuckets, conversations, messages, req, loc,
                   rlLog, cred, widget>>

\* Upstream answers non-2xx or without a body, or the fetch rejects:
\* generateAssistantMessage throws.
FetchFails(r) ==
    /\ pc[r] = "fetch"
    /\ \E error \in ErrorTexts : Fail(r, "upstream", error)
    /\ UNCHANGED <<env, now, rateLimitBuckets, conversations, messages, req, loc,
                   rlLog, cred, widget>>

\* The tokens of a slice of generateAssistantMessage go to onToken; when
\* the slice threw, the catch block runs after them.
AfterTokens(r, got) ==
    LET st == IF req[r].kind = "stream"
              THEN WriteTokens(Outward(r), got.tokens)
              ELSE Outward(r)
    IN  IF got.threw THEN Caught(req[r].kind, st, TypeErrorText) ELSE st

\* A read that takes the sentinel for the end of the stream: when a complete
\* event of the buffer holds [DONE], the events up to it are processed, the
\* rest is dropped and the handler goes on to store the message.
ReadStoppingAtSentinel(r, chunk) ==
    /\ pc[r] = "read"
    /\ LET buffer == loc[r].buffer \o chunk
           hits == {i \in 1..Len(buffer) : buffer[i] = "[DONE]"}
           cut == IF hits = {} THEN Len(buffer)
                  ELSE (CHOOSE i \in hits : \A j \in hits : i <= j) + 2
           stop == hits # {} /\ cut <= Len(buffer)
           got == drainBuffer(IF stop THEN SubSeq(buffer, 1, cut) ELSE buffer)
           text == loc[r].assistantMessage \o Concat(got.tokens)
       IN  /\ loc' = [loc EXCEPT ![r].buffer = got.buffer,
                                 ![r].assistantMessage = text,
                                 ![r].finalMessage = IF stop THEN finalMessageOf(text) ELSE @,
                                 ![r].persistAt = IF stop THEN now ELSE @]
           /\ res' = [res EXCEPT ![r] = AfterTokens(r, got).res]
           /\ hist' = [hist EXCEPT ![r].writes = AfterTokens(r, got).writes,
                                   ![r].chunks = Append(@, chunk),
                                   ![r].cause = IF got.threw THEN "parse" ELSE @]
           /\ pc' = [pc EXCEPT ![r] = IF got.threw THEN "done"
                                      ELSE IF stop THEN "persist" ELSE "read"]
    /\ UNCHANGED <<env, now, rateLimitBuckets, conversations, messages, req, rlLog, cred, widget>>

\* A read whose chunk replaces the buffer instead of being appended to it:
\* what the read before left over is lost.
ReadForgetting(r, chunk) ==
    /\ pc[r] = "read"
    /\ LET got == drainBuffer(chunk)
       IN  /\ loc' = [loc EXCEPT ![r].buffer = got.buffer,
                                 ![r].assistantMessage = @ \o Concat(got.tokens)]
           /\ res' = [res EXCEPT ![r] = AfterTokens(r, got).res]
           /\ hist' = [hist EXCEPT ![r].writes = AfterTokens(r, got).writes,
                                   ![r].chunks = Append(@, chunk),
                                   ![r].cause = IF got.threw THEN "parse" ELSE @]
           /\ pc' = [pc EXCEPT ![r] = IF got.threw THEN "done" ELSE "read"]
    /\ UNCHANGED <<env, now, rateLimitBuckets, conversations, messages, req, rlLog, cred, widget>>

\* reader.read() yields a chunk: it is appended to the buffer, every complete
\* event is cut off and processed, each token is added to assistantMessage
\* and handed to onToken, all before the next read is awaited.
Read(r, chunk) ==
    /\ pc[r] = "read"
    /\ LET got == drainBuffer(loc[r].buffer \o chunk)
       IN  /\ loc' = [loc EXCEPT ![r].buffer = got.buffer,
                                 ![r].assistantMessage = @ \o Concat(got.tokens)]
           /\ res' = [res EXCEPT ![r] = AfterTokens(r, got).res]
           /\ hist' = [hist EXCEPT ![r].writes = AfterTokens(r, got).writes,
                                   ![r].chunks = Append(@, chunk),
                                   ![r].cause = IF got.threw THEN "parse" ELSE @]
           /\ pc' = [pc EXCEPT ![r] = IF got.threw THEN "done" ELSE "read"]
    /\ UNCHANGED <<env, now, rateLimitBuckets, conversations, messages, req, rlLog, cred, widget>>

\* The end of the upstream stream in a handler that gives up when the
\* client has gone: nothing is computed or stored.
ReadDoneAbandoning(r) ==
    /\ pc[r] = "read"
    /\ IF res[r].destroyed
       THEN /\ hist' = [hist EXCEPT ![r].eof = TRUE]
            /\ pc' = [pc EXCEPT ![r] = "done"]
            /\ UNCHANGED <<loc, res>>
       ELSE LET got == processTrailing(loc[r].buffer)
                text == loc[r].assistantMessage \o Concat(got.tokens)
            IN  /\ loc' = [loc EXCEPT ![r].assistantMessage = text,
                                      ![r].finalMessage = finalMessageOf(text),
                                      ![r].persistAt = now]
                /\ res' = [res EXCEPT ![r] = AfterTokens(r, got).res]
                /\ hist' = [hist EXCEPT ![r].writes = AfterTokens(r, got).writes,
                                        ![r].eof = TRUE,
                                        ![r].cause = IF got.threw THEN "parse" ELSE @]
                /\ pc' = [pc EXCEPT ![r] = IF got.threw THEN "done" ELSE "persist"]
    /\ UNCHANGED <<env, now, rateLimitBuckets, conversations, messages, req, rlLog, cred, widget>>

\* reader.read() reports the end of the stream: a trailing partial event is
\* processed, the final message is computed, and persistAssistantMessage
\* issues addMessage with the time of the call.
ReadDone(r) ==
    /\ pc[r] = "read"
    /\ LET got == processTrailing(loc[r].buffer)
           text == loc[r].assistantMessage \o Concat(got.tokens)
       IN  /\ loc' = [loc EXCEPT ![r].assistantMessage = text,
                                 ![r].finalMessage = finalMessageOf(text),
                                 ![r].persistAt = now]
           /\ res' = [res EXCEPT ![r] = AfterTokens(r, got).res]
           /\ hist' = [hist EXCEPT ![r].writes = AfterTokens(r, got).writes,
                                   ![r].eof = TRUE,
                                   ![r].cause = IF got.threw THEN "parse" ELSE @]
           /\ pc' = [pc EXCEPT ![r] = IF got.threw THEN "done" ELSE "persist"]
    /\ UNCHANGED <<env, now, rateLimitBuckets, conversations, messages, req, rlLog, cred, widget>>

\* reader.read() rejects: the upstream stream broke.
ReadError(r) ==
    /\ pc[r] = "read"
    /\ \E error \in ErrorTexts : Fail(r, "read", error)
    /\ UNCHANGED <<env, now, rateLimitBuckets, conversations, messages, req, loc,
                   rlLog, cred, widget>>

\* The end of the try block with a JSON body that carries the text before
\* the fallback is substituted: empty text stays empty.
SucceededJsonWithoutFallback(kind, st, id, text) ==
    IF kind = "action" THEN [res |-> Returned(st.res, ChatBody(id, text)),
                             writes |-> st.writes]
    ELSE IF kind = "chat"
    THEN [res |-> ResJson(st.res, 200,
                          ChatBody(id, IF text = Fallback THEN <<>> ELSE text)),
          writes |-> st.writes]
    ELSE IF ~st.res.writableEnded
    THEN [res |-> ResEnd(writeStreamLine(st.res, DoneEvent(text, id))),
          writes |-> Append(st.writes, DoneEvent(text, id))]
    ELSE st

\* The end of the try block after the assistant turn is stored:
\* handleStreamingChat writes done and ends unless the response was ended;
\* POST /v1/chat answers 200 with the conversation id and the message; the
\* Convex action returns them.
Succeeded(kind, st, id, text) ==
    IF kind = "action" THEN [res |-> Returned(st.res, ChatBody(id, text)),
                             writes |-> st.writes]
    ELSE IF kind = "chat" THEN [res |-> ResJson(st.res, 200, ChatBody(id, text)),
                           writes |-> st.writes]
    ELSE IF ~st.res.writableEnded
    THEN [res |-> ResEnd(writeStreamLine(st.res, DoneEvent(text, id))),
          writes |-> Append(st.writes, DoneEvent(text, id))]
    ELSE st

\* The end of the try block with the assistant turn stored only while the
\* client is still connected.
StorePersistUnlessClientGone(r) ==
    /\ pc[r] = "persist"
    /\ LET put == IF res[r].destroyed
                  THEN [conversations |-> conversations, messages |-> messages]
                  ELSE addMessage(conversations, messages, loc[r].conversationIdRaw,
                                  "assistant", loc[r].finalMessage, loc[r].persistAt)
           st == Succeeded(req[r].kind, Outward(r), loc[r].conversationIdRaw,
                           loc[r].finalMessage)
       IN  /\ conversations' = put.conversations
           /\ messages' = put.messages
           /\ res' = [res EXCEPT ![r] = st.res]
           /\ hist' = [hist EXCEPT ![r].writes = st.writes,
                                   ![r].mutations = IF res[r].destroyed THEN @ ELSE @ + 1,
                                   ![r].appended = IF res[r].destroyed THEN @ ELSE @ + 1]
    /\ pc' = [pc EXCEPT ![r] = "done"]
    /\ UNCHANGED <<env, now, rateLimitBuckets, req, loc, rlLog, cred, widget>>

\* The append of the assistant turn with the role of the user turn.
StorePersistAsUser(r) ==
    /\ pc[r] = "persist"
    /\ LET put == addMessage(conversations, messages, loc[r].conversationIdRaw,
                             "user", loc[r].finalMessage, loc[r].persistAt)
           st == Succeeded(req[r].kind, Outward(r), loc[r].conversationIdRaw,
                           loc[r].finalMessage)
       IN  /\ conversations' = put.conversations
           /\ messages' = put.messages
           /\ res' = [res EXCEPT ![r] = st.res]
           /\ hist' = [hist EXCEPT ![r].writes = st.writes,
                                   ![r].mutations = @ + 1,
                                   ![r].appended = @ + 1]
    /\ pc' = [pc EXCEPT ![r] = "done"]
    /\ UNCHANGED <<env, now, rateLimitBuckets, req, loc, rlLog, cred, widget>>

\* The store runs addMessage for the assistant turn; the handler sends the
\* final message.
StorePersist(r) ==
    /\ pc[r] = "persist"
    /\ LET put == addMessage(conversations, messages, loc[r].conversationIdRaw,
                             "assistant", loc[r].finalMessage, loc[r].persistAt)
           st == Succeeded(req[r].kind, Outward(r), loc[r].conversationIdRaw,
                           loc[r].finalMessage)
       IN  /\ conversations' = put.conversations
           /\ messages' = put.messages
           /\ res' = [res EXCEPT ![r] = st.res]
           /\ hist' = [hist EXCEPT ![r].writes = st.writes,
                                   ![r].mutations = @ + 1,
                                   ![r].appended = @ + 1]
    /\ pc' = [pc EXCEPT ![r] = "done"]
    /\ UNCHANGED <<env, now, rateLimitBuckets, req, loc, rlLog, cred, widget>>

\* The client closes the connection: the response's socket is destroyed.
ClientDisconnect(r) ==
    /\ pc[r] \notin {"idle", "done"}
    /\ req[r].kind \in {"stream", "chat"}
    /\ ~res[r].destroyed
    /\ res' = [res EXCEPT ![r].destroyed = TRUE]
    /\ UNCHANGED <<env, now, rateLimitBuckets, conversations, messages, req, pc,
                   loc, hist, rlLog, cred, widget>>

(***************************************************************************)
(* The Convex action `chat` (convex/chat.ts): the same store calls, one     *)
(* upstream completion that is not streamed                                *)
(***************************************************************************)

\* completion.choices?.[0]?.message?.content?.trim() || fallback; Absent is
\* a completion without content.
completionMessage(content) ==
    IF content = Absent \/ Trim(content) = <<>> THEN Fallback ELSE Trim(content)

\* The action is called with args that passed its validator (two strings;
\* OPENAI_API_KEY is configured) and issues getOrCreateConversation.
ActionEntry(r, rq) ==
    /\ pc[r] = "idle"
    /\ \A q \in Reqs : q < r => pc[q] # "idle"
    /\ rq.kind = "action"
    /\ req' = [req EXCEPT ![r] = rq]
    /\ pc' = [pc EXCEPT ![r] = "getOrCreate"]
    /\ loc' = [loc EXCEPT ![r].now = now]
    /\ UNCHANGED <<env, now, rateLimitBuckets, conversations, messages, res, hist,
                   rlLog, cred, widget>>

\* Upstream answers 2xx with a JSON completion: the message is computed and
\* addMessage is issued for the assistant turn with the time of the call.
ActionCompletion(r, content) ==
    /\ pc[r] = "fetch"
    /\ req[r].kind = "action"
    /\ loc' = [loc EXCEPT ![r].assistantMessage = content,
                          ![r].finalMessage = completionMessage(content),
                          ![r].persistAt = now]
    /\ pc' = [pc EXCEPT ![r] = "persist"]
    /\ UNCHANGED <<env, now, rateLimitBuckets, conversations, messages, req, res,
                   hist, rlLog, cred, widget>>

(***************************************************************************)
(* The admin handlers: GET /v1/admin/conversations[/:conversationId]       *)
(***************************************************************************)

MaxListLimit == 200
DefaultListLimit == 100
MaxConversationIdLength == 128

\* listConversationsSchema on req.query.limit: <<>> is an absent parameter,
\* <<n>> the number n.  Gives the parsed limit, 0 when the parse fails.
parseListLimit(limit) ==
    IF limit = <<>> THEN DefaultListLimit
    ELSE IF limit[1] > 0 /\ limit[1] <= MaxListLimit THEN limit[1]
    ELSE 0

\* conversationIdParamsSchema: a string of 1 to 128 characters.
conversationIdParamValid(id) ==
    id # Absent /\ StrLen(id) >= 1 /\ StrLen(id) <= MaxConversationIdLength

\* The conversations in the order of the index by_updated_at, descending:
\* latest update first, then latest insertion first.
RECURSIVE SortByUpdatedDesc(_, _)
SortByUpdatedDesc(convs, rows) ==
    IF rows = {} THEN <<>>
    ELSE LET first == CHOOSE i \in rows : \A j \in rows :
                          \/ convs[i].updatedAt > convs[j].updatedAt
                          \/ (convs[i].updatedAt = convs[j].updatedAt /\ i >= j)
         IN  <<[id |-> first, row |-> convs[first]]>>
                 \o SortByUpdatedDesc(convs, rows \ {first})

\* listConversations
listConversations(convs) == SortByUpdatedDesc(convs, DOMAIN convs)

\* The key a path parameter names: a one-digit parameter names that row
\* number; any other text is no key of the table (0).
idOfParam(id) ==
    IF id = <<"1">> THEN 1 ELSE IF id = <<"2">> THEN 2
    ELSE IF id = <<"3">> THEN 3 ELSE 0

ListBody(rows, total) == [kind |-> "list", conversations |-> rows, total |-> total]
ThreadBody(id, row, msgs) ==
    [kind |-> "thread", id |-> id, conversation |-> row, messages |-> msgs]

\* requireAdminApiKey with the credential compared before the test that a
\* secret is configured.
requireAdminApiKeyCredentialFirst(rq) ==
    IF ~secureEquals(env.ADMIN_API_KEY,
                     IF rq.adminApiKey = Absent THEN <<>> ELSE rq.adminApiKey).ok
    THEN 401
    ELSE IF env.ADMIN_API_KEY = <<>> THEN 503
    ELSE 0

\* requireAdminApiKey: 0 when the key is accepted, else the status to answer.
requireAdminApiKey(rq) ==
    IF env.ADMIN_API_KEY = <<>> THEN 503
    ELSE IF ~secureEquals(env.ADMIN_API_KEY,
                          IF rq.adminApiKey = Absent THEN <<>> ELSE rq.adminApiKey).ok
    THEN 401
    ELSE 0

\* An admin request arrives and its handler runs up to the store query.
AdminEntry(r, rq) ==
    /\ pc[r] = "idle"
    /\ \A q \in Reqs : q < r => pc[q] # "idle"
    /\ rq.kind \in {"adminList", "adminThread"}
    /\ req' = [req EXCEPT ![r] = rq]
    /\ IF requireAdminApiKey(rq) = 503
       THEN Reject(r, 503, ErrorBody("ADMIN_API_KEY is not configured on this deployment",
                                     FALSE))
       ELSE IF requireAdminApiKey(rq) = 401
       THEN Reject(r, 401, ErrorBody("Unauthorized", FALSE))
       ELSE IF rq.kind = "adminList" /\ parseListLimit(rq.limit) = 0
       THEN Reject(r, 400, ErrorBody("Invalid query parameters", FALSE))
       ELSE IF rq.kind = "adminThread" /\ ~conversationIdParamValid(rq.conversationId)
       THEN Reject(r, 400, ErrorBody("Invalid conversationId", FALSE))
       ELSE /\ pc' = [pc EXCEPT ![r] = "adminQuery"]
            /\ UNCHANGED <<res, loc, hist>>
    /\ UNCHANGED <<env, now, rateLimitBuckets, conversations, messages, rlLog, cred, widget>>

\* String.prototype.toLowerCase, word by word
ToLowerCase(text) ==
    [i \in 1..Len(text) |->
        CASE text[i] = "Invalid" -> "invalid"
          [] text[i] = "Server"  -> "server"
          [] text[i] = "Error"   -> "error"
          [] text[i] = "OpenAI"  -> "openai"
          [] OTHER               -> text[i]]

\* error.message.toLowerCase().includes("invalid")
includesInvalid(error) ==
    \E i \in 1..Len(error) : ToLowerCase(error)[i] = "invalid"

\* The catch block of GET /v1/admin/conversations/:conversationId.
adminThreadCaught(resp, error) ==
    IF includesInvalid(error)
    THEN ResJson(resp, 400, ErrorBody("Invalid conversationId", FALSE))
    ELSE ResJson(resp, 500, ErrorBody("Internal server error", FALSE))

\* The store answers the admin query and the handler answers the client:
\* the first `limit` conversations and the total, or the thread, or 404.
\* A parameter that is no key of the table fails the argument validator of
\* getConversationThread with an Error of message error, and the catch
\* block answers.
AdminQuery(r, error) ==
    /\ pc[r] = "adminQuery"
    /\ LET all == listConversations(conversations)
           limit == parseListLimit(req[r].limit)
           id == idOfParam(req[r].conversationId)
           thread == getConversationThread(conversations, messages, id)
       IN  res' = [res EXCEPT ![r] =
              IF req[r].kind = "adminList"
              THEN ResJson(@, 200,
                           ListBody(SubSeq(all, 1, IF Len(all) < limit THEN Len(all) ELSE limit),
                                    Len(all)))
              ELSE IF id = 0
              THEN adminThreadCaught(@, error)
              ELSE IF thread.isNull
              THEN ResJson(@, 404, ErrorBody("Conversation not found", FALSE))
              ELSE ResJson(@, 200, ThreadBody(id, thread.conversation,
                                              thread.messages))]
    /\ hist' = [hist EXCEPT ![r].queries = @ + 1]
    /\ pc' = [pc EXCEPT ![r] = "done"]
    /\ UNCHANGED <<env, now, rateLimitBuckets, conversations, messages, req, loc,
                   rlLog, cred, widget>>

\* The admin query rejects: the catch block of the handler answers.
AdminQueryFails(r) ==
    /\ pc[r] = "adminQuery"
    /\ \E error \in ErrorTexts :
          res' = [res EXCEPT ![r] =
                     IF req[r].kind = "adminThread"
                     THEN adminThreadCaught(@, error)
                     ELSE ResJson(@, 500, ErrorBody("Internal server error", FALSE))]
    /\ pc' = [pc EXCEPT ![r] = "done"]
    /\ UNCHANGED <<env, now, rateLimitBuckets, conversations, messages, req, loc,
                   hist, rlLog, cred, widget>>

(***************************************************************************)
(* What clients and upstream send                                          *)
(***************************************************************************)

AdminKey == <<"a", "w">>
WrongKey == <<"s", "a">>

ChatRequest(kind, key, sessionId, message) ==
    [NoRequest EXCEPT !.kind = kind, !.ip = "ipA", !.apiKey = key,
                      !.sessionId = sessionId, !.message = message]

AdminRequest(kind, key, limit, id) ==
    [NoRequest EXCEPT !.kind = kind, !.ip = "ipA", !.adminApiKey = key,
                      !.limit = limit, !.conversationId = id]

\* Well-formed and authorised chat requests on two sessions, and one chat
\* request for each way of being turned away.
ChatInputs ==
    {ChatRequest("stream", GoodKey, <<"a">>, <<"h">>),
     ChatRequest("chat", GoodKey, <<"a">>, <<"h">>),
     ChatRequest("chat", GoodKey, <<"b">>, <<"h">>),
     ChatRequest("stream", WrongKey, <<"a">>, <<"h">>),
     ChatRequest("chat", Absent, <<"a">>, <<"h">>),
     ChatRequest("stream", GoodKey, <<"a", "!">>, <<"h">>),
     ChatRequest("chat", GoodKey, <<"a">>, <<>>)}

AdminInputs ==
    {AdminRequest("adminList", AdminKey, <<>>, Absent),
     AdminRequest("adminList", AdminKey, <<0>>, Absent),
     AdminRequest("adminList", WrongKey, <<>>, Absent),
     AdminRequest("adminList", <<>>, <<>>, Absent),
     AdminRequest("adminThread", AdminKey, <<>>, <<"1">>),
     AdminRequest("adminThread", AdminKey, <<>>, <<"x">>),
     AdminRequest("adminThread", Absent, <<>>, <<"1">>)}

\* Calls of the Convex action.
ActionInputs ==
    {[NoRequest EXCEPT !.kind = "action", !.sessionId = <<"a">>, !.message = <<"h">>]}

\* The content of a completion that is not streamed: none, empty, blank,
\* text, text with blanks around it.
Completions == {Absent, <<>>, <<"SP">>, <<"a">>, <<"SP", "a", "NL">>}

(***************************************************************************)
(* The widget: submitMessage                                               *)
(***************************************************************************)

\* The text the assistant bubble is created with, the text for a stream
\* that left the bubble empty and the text of the catch block.
Placeholder == <<"Thinking...">>
FallbackText == <<"I could not generate a response right now.">>
FailureText == <<"Something went wrong. Please try again.">>

\* The widget after bootstrapWidget: no submitMessage call yet.  bubble is
\* assistantMessageEl.textContent, logged the error handed to console.error;
\* events lists the payloads processLine acted on (observation only).
WidgetIdle ==
    [pc |-> "idle", bubble |-> Absent, sendDisabled |-> FALSE,
     inputDisabled |-> FALSE, buffer |-> <<>>, assembled |-> <<>>,
     reads |-> 0, logged |-> "none", events |-> <<>>]

\* What JSON.parse gave no object for: a line that is not JSON (the catch of
\* parseJsonLine) or the JSON value null.
NoPayload == [type |-> "null", text |-> <<>>]

\* parseJsonLine: a line is one JSON text or not JSON.  text is the token of
\* a token event, the message of a done event, the error of an error event.
parseJsonLine(line) ==
    IF Len(line) # 1 THEN NoPayload
    ELSE CASE line[1] = "W:start" -> [type |-> "start", text |-> <<>>]
           [] line[1] = "W:token:a" -> [type |-> "token", text |-> <<"a">>]
           [] line[1] = "W:token:b" -> [type |-> "token", text |-> <<"b">>]
           [] line[1] = "W:token:" -> [type |-> "token", text |-> <<>>]
           [] line[1] = "W:done:ab" -> [type |-> "done", text |-> <<"a", "b">>]
           [] line[1] = "W:done:" -> [type |-> "done", text |-> <<>>]
           [] line[1] = "W:error" -> [type |-> "error", text |-> <<"Internal server error">>]
           [] line[1] = "W:chat" -> [type |-> "none", text |-> <<>>]
           [] OTHER -> NoPayload

\* processLine of submitMessage on the widget state w.
widgetProcessLine(w, line) ==
    LET payload == parseJsonLine(line)
        seen == [w EXCEPT !.events = Append(@, payload)]
    IN  IF payload = NoPayload THEN w
        ELSE IF payload.type = "token"
        THEN [seen EXCEPT !.assembled = w.assembled \o payload.text,
                          !.bubble = w.assembled \o payload.text]
        ELSE IF payload.type = "done"
        THEN [seen EXCEPT !.bubble = payload.text, !.assembled = payload.text]
        ELSE IF payload.type = "error"
        THEN [seen EXCEPT !.bubble = payload.text]
        ELSE seen

\* buffer.indexOf("\n"), counted from 1; 0 when there is none.
indexOfNewline(buffer) ==
    LET hits == {i \in 1..Len(buffer) : buffer[i] = "NL"}
    IN  IF hits = {} THEN 0 ELSE CHOOSE i \in hits : \A j \in hits : i <= j

\* The inner while loop of submitMessage: every complete line is cut off the
\* buffer, trimmed and, unless empty, processed.
RECURSIVE widgetDrain(_)
widgetDrain(w) ==
    LET newlineIndex == indexOfNewline(w.buffer)
    IN  IF newlineIndex = 0 THEN w
        ELSE LET line == Trim(SubSeq(w.buffer, 1, newlineIndex - 1))
                 cut == [w EXCEPT !.buffer = SubSeq(w.buffer, newlineIndex + 1,
                                                    Len(w.buffer))]
             IN  IF line = <<>> THEN widgetDrain(cut)
                 ELSE widgetDrain(widgetProcessLine(cut, line))

\* The finally block: the send button and the input are enabled again.
widgetFinally(w) ==
    [w EXCEPT !.sendDisabled = FALSE, !.inputDisabled = FALSE, !.pc = "finished"]

\* The catch block on the error thrown, then the finally block.
widgetCatch(w, error) ==
    widgetFinally([w EXCEPT !.bubble = FailureText, !.logged = error])

\* submitMessage up to the fetch: the bubble is created with the
\* placeholder, the send button and the input are disabled.
submitMessage ==
    /\ widget.pc = "idle"
    /\ widget' = [widget EXCEPT !.bubble = Placeholder, !.sendDisabled = TRUE,
                                !.inputDisabled = TRUE, !.pc = "fetch"]
    /\ UNCHANGED <<relayVars, cred>>

\* fetch resolves: a response that is not ok or has no body throws into the
\* catch block; otherwise the first read is awaited.
WidgetFetchResolves(ok, hasBody) ==
    /\ widget.pc = "fetch"
    /\ widget' = IF ~ok \/ ~hasBody
                 THEN widgetCatch(widget, "Request failed with status")
                 ELSE [widget EXCEPT !.pc = "read"]
    /\ UNCHANGED <<relayVars, cred>>

\* fetch rejects: the catch block, then the finally block.
WidgetFetchRejects ==
    /\ widget.pc = "fetch"
    /\ widget' = widgetCatch(widget, "fetch rejected")
    /\ UNCHANGED <<relayVars, cred>>

\* reader.read() yields a chunk: it is appended to the buffer and every
\* complete line is processed before the next read is awaited.
WidgetRead(chunk) ==
    /\ widget.pc = "read"
    /\ widget' = widgetDrain([widget EXCEPT !.buffer = @ \o chunk,
                                            !.reads = @ + 1])
    /\ UNCHANGED <<relayVars, cred>>

\* reader.read() rejects: the catch block, then the finally block.
WidgetReadRejects ==
    /\ widget.pc = "read"
    /\ widget' = widgetCatch(widget, "read rejected")
    /\ UNCHANGED <<relayVars, cred>>

\* reader.read() reports the end: the trimmed rest of the buffer is
\* processed if it is not empty, the fallback text is shown if the bubble's
\* text is empty, then the finally block.
WidgetReadDone ==
    /\ widget.pc = "read"
    /\ LET trailing == Trim(widget.buffer)
           last == IF trailing # <<>> THEN widgetProcessLine(widget, trailing)
                   ELSE widget
       IN  widget' = widgetFinally(IF last.bubble = <<>>
                                   THEN [last EXCEPT !.bubble = FallbackText]
                                   ELSE last)
    /\ UNCHANGED <<relayVars, cred>>

\* What upstream sends in one read: a complete event with the token a; an
\* event with the token b left unterminated; the blank line that ends an
\* event; two complete events; an event whose token is a blank; the
\* sentinel; an event with a line that is not JSON and a chunk without
\* content; half a blank line; an event whose payload is the JSON value null.
Chunks ==
    {<<"data:", "SP", "J:a", "NL", "NL">>,
     <<"data:", "J:b">>,
     <<"NL", "NL">>,
     <<"data:", "J:a", "NL", "NL", "data:", "J:b", "NL", "NL">>,
     <<"data:", "J:SP", "NL", "NL">>,
     <<"data:", "SP", "[DONE]", "NL", "NL">>,
     <<"data:", "bad", "NL", "data:", "J:-", "NL", "NL">>,
     <<"NL">>,
     <<"data:", "J:null", "NL", "NL">>}

(***************************************************************************)
(* Spec: one chat request, from its arrival to its answer, with every way  *)
(* the store, upstream and the client can behave; the clock stands still   *)
(***************************************************************************)

\* Upstream reads per request.
MaxReads == 3

Init ==
    /\ InitRelay(BaseEnv, {1})
    /\ cred = CredIdle
    /\ widget = WidgetIdle

Next ==
    \/ \E r \in Reqs, rq \in ChatInputs : ChatEntry(r, rq)
    \/ \E r \in Reqs : StoreGetOrCreate(r)
    \/ \E r \in Reqs : StoreAddUserMessage(r)
    \/ \E r \in Reqs : StoreGetHistory(r)
    \/ \E r \in Reqs : StoreFails(r)
    \/ \E r \in Reqs : FetchResponds(r)
    \/ \E r \in Reqs : FetchFails(r)
    \/ \E r \in Reqs, c \in Chunks : Len(hist[r].chunks) < MaxReads /\ Read(r, c)
    \/ \E r \in Reqs : ReadDone(r)
    \/ \E r \in Reqs : ReadError(r)
    \/ \E r \in Reqs : StorePersist(r)
    \/ \E r \in Reqs : ClientDisconnect(r)
    \/ \E r \in Reqs, rq \in ActionInputs : ActionEntry(r, rq)
    \/ \E r \in Reqs, c \in Completions : ActionCompletion(r, c)

Spec == Init /\ [][Next]_vars

(***************************************************************************)
(* SpecGate: concurrent chat and admin requests against one store while    *)
(* time passes, with an upstream that answers in one read                  *)
(***************************************************************************)

\* Upstream reads per request, and how long the clock is followed.
MaxGateReads == 1
MaxTime == 1

GateChunks == {<<"data:", "SP", "J:a", "NL", "NL">>}

InitGate ==
    /\ \E admin \in {<<>>, AdminKey}, max \in {1, 2} :
          InitRelay([BaseEnv EXCEPT !.RATE_LIMIT_WINDOW_MS = 1,
                                    !.RATE_LIMIT_MAX_REQUESTS = max,
                                    !.ADMIN_API_KEY = admin],
                    {1, 2})
    /\ cred = CredIdle
    /\ widget = WidgetIdle

NextGate ==
    \/ \E r \in Reqs, rq \in ChatInputs : ChatEntry(r, rq)
    \/ \E r \in Reqs, rq \in AdminInputs : AdminEntry(r, rq)
    \/ \E r \in Reqs : StoreGetOrCreate(r)
    \/ \E r \in Reqs : StoreAddUserMessage(r)
    \/ \E r \in Reqs : StoreGetHistory(r)
    \/ \E r \in Reqs : StoreFails(r)
    \/ \E r \in Reqs : FetchResponds(r)
    \/ \E r \in Reqs : FetchFails(r)
    \/ \E r \in Reqs, c \in GateChunks : Len(hist[r].chunks) < MaxGateReads /\ Read(r, c)
    \/ \E r \in Reqs : ReadDone(r)
    \/ \E r \in Reqs : StorePersist(r)
    \/ \E r \in Reqs, error \in ErrorTexts : AdminQuery(r, error)
    \/ \E r \in Reqs : AdminQueryFails(r)
    \/ Tick(MaxTime)

SpecGate == InitGate /\ [][NextGate]_vars

(***************************************************************************)
(* SpecRate: the rate limiter under a stream of requests from two clients  *)
(***************************************************************************)

\* Number of requests sent to the rate limiter, and how long the clock runs.
MaxRateRequests == 6
MaxRateTime == 2
\* Largest window length and largest maximum tried.
MaxWindow == 1
MaxLimit == 3

\* Requests that carry no credential: each ends at 429 or 401.
RateInputs ==
    {[NoRequest EXCEPT !.kind = "stream", !.ip = k] : k \in {"ipA", "ipB"}}

InitRate ==
    /\ \E w \in 1..MaxWindow, m \in 1..MaxLimit :
          InitRelay([BaseEnv EXCEPT !.RATE_LIMIT_WINDOW_MS = w,
                                    !.RATE_LIMIT_MAX_REQUESTS = m],
                    1..MaxRateRequests)
    /\ cred = CredIdle
    /\ widget = WidgetIdle

NextRate ==
    \/ \E r \in Reqs, rq \in RateInputs : ChatEntry(r, rq)
    \/ Tick(MaxRateTime)

SpecRate == InitRate /\ [][NextRate]_vars

(***************************************************************************)
(* The fixed-window rule, stated on the log of decisions alone: a window   *)
(* of a key starts at the first request of that key, or at its first       *)
(* request later than W after the start of the window before.              *)
(***************************************************************************)

\* The decision before the i-th that was about the same key (0: none).
PrevSameKey(i) ==
    LET S == {j \in 1..(i - 1) : rlLog[j].key = rlLog[i].key}
    IN  IF S = {} THEN 0 ELSE CHOOSE j \in S : \A k \in S : k <= j

RECURSIVE WindowStart(_)
WindowStart(i) ==
    LET p == PrevSameKey(i)
    IN  IF p = 0 THEN rlLog[i].at
        ELSE IF rlLog[i].at > WindowStart(p) + env.RATE_LIMIT_WINDOW_MS
             THEN rlLog[i].at
             ELSE WindowStart(p)

\* The requests of the i-th decision's key and window, up to the i-th.
SameWindowUpTo(i) ==
    {j \in 1..i : /\ rlLog[j].key = rlLog[i].key
                  /\ WindowStart(j) = WindowStart(i)}

\* The i-th decision is about the k-th request of its key in its window.
OrdinalInWindow(i) == Cardinality(SameWindowUpTo(i))

\* The verdicts given to one key, in order.
RECURSIVE VerdictsOf(_, _)
VerdictsOf(key, log) ==
    IF log = <<>> THEN <<>>
    ELSE (IF Head(log).key = key THEN <<Head(log).within>> ELSE <<>>)
         \o VerdictsOf(key, Tail(log))

\* C7: the k-th request of a key inside one window is admitted iff k <= M,
\* and the first request of a key after its window has elapsed is admitted
\* (it is the first of a new window).  Stated of the latest decision: every
\* decision is the latest one in the state that follows it.
C7_AdmitIffWithinMax ==
    \A i \in {Len(rlLog)} \ {0} :
        /\ rlLog[i].within <=> OrdinalInWindow(i) <= env.RATE_LIMIT_MAX_REQUESTS
        /\ (PrevSameKey(i) # 0 /\ WindowStart(i) # WindowStart(PrevSameKey(i)))
              => (rlLog[i].within /\ OrdinalInWindow(i) = 1)

\* With a maximum of 3: five requests of one key in one window, answered
\* true, true, true, false, false, and a sixth after the window, answered true.
C7_Witness ==
    /\ env.RATE_LIMIT_MAX_REQUESTS = 3
    /\ VerdictsOf("ipA", rlLog) = <<TRUE, TRUE, TRUE, FALSE, FALSE, TRUE>>
    /\ Len(rlLog) = 6
    /\ WindowStart(5) = WindowStart(1)
    /\ WindowStart(6) # WindowStart(1)

\* The last decision about a key (0: none).
LastOfKey(key) ==
    LET S == {j \in DOMAIN rlLog : rlLog[j].key = key}
    IN  IF S = {} THEN 0 ELSE CHOOSE j \in S : \A k \in S : k <= j

\* C8: in every interleaving the bucket of a key counts every request of
\* that key since its window began, admitted or rejected, and no window of
\* a key admits more than the maximum.
C8_BucketCountsEveryRequest ==
    /\ \A key \in ClientKeys :
          LET last == LastOfKey(key)
          IN  IF last = 0
              THEN rateLimitBuckets[key] = NoBucket
              ELSE /\ rateLimitBuckets[key].count = OrdinalInWindow(last)
                   /\ rateLimitBuckets[key].resetAt =
                         WindowStart(last) + env.RATE_LIMIT_WINDOW_MS
    /\ \A i \in {Len(rlLog)} \ {0} :
          Cardinality({j \in SameWindowUpTo(i) : rlLog[j].within})
              <= env.RATE_LIMIT_MAX_REQUESTS

\* Both clients are being limited in overlapping windows: each has had a
\* request rejected, and their requests alternated.
C8_Witness ==
    /\ \E i, j \in DOMAIN rlLog :
          /\ rlLog[i].key = "ipA" /\ ~rlLog[i].within
          /\ rlLog[j].key = "ipB" /\ ~rlLog[j].within
    /\ \E i, j, k \in DOMAIN rlLog :
          /\ i < j /\ j < k
          /\ rlLog[i].key = "ipA" /\ rlLog[j].key = "ipB" /\ rlLog[k].key = "ipA"
          /\ WindowStart(i) = WindowStart(k)
    /\ rateLimitBuckets["ipA"].count > env.RATE_LIMIT_MAX_REQUESTS

(***************************************************************************)
(* SpecCred: the credential check on every pair of short secrets           *)
(***************************************************************************)

InitCredential ==
    /\ InitCred
    /\ widget = WidgetIdle
    /\ InitRelay(BaseEnv, {})

NextCred == Verify /\ UNCHANGED <<relayVars, widget>>

SpecCred == InitCredential /\ [][NextCred]_vars

(***************************************************************************)
(* The event stream of a streaming request (Spec)                          *)
(***************************************************************************)

Terminal == {"done", "error"}

CountOf(ws, types) == Cardinality({i \in 1..Len(ws) : ws[i].type \in types})

\* The fragments of the token events among the writes, in order.
TokensWritten(ws) ==
    LET tokenEvents == SelectSeq(ws, LAMBDA e : e.type = "token")
    IN  [i \in 1..Len(tokenEvents) |-> tokenEvents[i].token]

Streaming(r) == req[r].kind = "stream"

\* The request was turned away before prepareConversationData.
TurnedAway(r) ==
    \/ req[r].kind \in {"stream", "chat"} /\ res[r].statusCode \in {429, 401, 400}
    \/ req[r].kind \in {"adminList", "adminThread"} /\ res[r].statusCode \in {503, 401}

\* The request got past rate limit, credential and validation.
Validated(r) ==
    /\ req[r].kind \in {"stream", "chat"}
    /\ pc[r] # "idle"
    /\ ~TurnedAway(r)

\* The assistant turns stored in the conversation of r.
AssistantTurns(r) ==
    {i \in DOMAIN messages : /\ messages[i].role = "assistant"
                             /\ messages[i].conversationId = loc[r].conversationIdRaw}

\* C1 as stated: every streaming request that has ended wrote exactly one
\* start event and exactly one terminal event, whatever way it ended.
C1_OneStartOneTerminalAlways ==
    \A r \in Reqs : (Streaming(r) /\ pc[r] = "done") =>
        /\ CountOf(hist[r].writes, {"start"}) = 1
        /\ CountOf(hist[r].writes, Terminal) = 1

\* C1, amended: a streaming request never writes two start events or two
\* terminal events, and when it has ended it either wrote no event at all
\* and answered with one JSON error (429, 401, 400, or 500 when the store
\* failed before the stream began; a client that has gone gets none), or wrote exactly one start event first
\* and exactly one terminal event last, or wrote its start event to a client
\* that had already gone and then failed, which is answered by the JSON
\* path with status 500 and no terminal event.
C1_OneStartOneTerminalOnceBegun ==
    \A r \in Reqs : Streaming(r) =>
        LET ws == hist[r].writes
            starts == CountOf(ws, {"start"})
            terminals == CountOf(ws, Terminal)
        IN  /\ starts <= 1
            /\ terminals <= 1
            /\ pc[r] = "done" =>
                  \/ /\ ws = <<>>
                     /\ res[r].statusCode \in {429, 401, 400, 500}
                     /\ res[r].destroyed \/ res[r].body.kind = "error"
                     /\ res[r].out = <<>>
                  \/ /\ starts = 1
                     /\ terminals = 1
                     /\ ws[1].type = "start"
                     /\ ws[Len(ws)].type \in Terminal
                     /\ res[r].statusCode = 200
                  \/ /\ starts = 1
                     /\ terminals = 0
                     /\ res[r].destroyed
                     /\ res[r].out = <<>>
                     /\ res[r].statusCode = 500
                     /\ hist[r].cause # "none"

\* A stream that began, carried tokens and ended with the error event
\* because a read of upstream failed.
C1_Witness ==
    \E r \in Reqs :
        /\ Streaming(r) /\ pc[r] = "done" /\ hist[r].cause = "read"
        /\ Len(hist[r].writes) >= 3
        /\ hist[r].writes[1].type = "start"
        /\ hist[r].writes[Len(hist[r].writes)].type = "error"
        /\ CountOf(hist[r].writes, {"token"}) = Len(hist[r].writes) - 2

\* C2: in every streaming response the start event is the first event
\* written, every token event comes after it and before the terminal event,
\* the response is ended with the terminal event, and once a response is
\* ended no event is written for that request and nothing more reaches the
\* client.
C2_StartFirstTerminalLast ==
    /\ [](\A r \in Reqs : Streaming(r) =>
            LET ws == hist[r].writes
            IN  /\ ws # <<>> => ws[1].type = "start"
                /\ \A i \in 2..Len(ws) : ws[i].type # "start"
                /\ \A i \in 1..(Len(ws) - 1) : ws[i].type \notin Terminal
                /\ \A i \in 1..Len(ws) : ws[i].type \in Terminal => res[r].writableEnded)
    /\ [][\A r \in Reqs : res[r].writableEnded =>
             /\ hist'[r].writes = hist[r].writes
             /\ res'[r].out = res[r].out]_vars

\* An ended response that carried start, two tokens and done, in that order.
C2_Witness ==
    \E r \in Reqs :
        /\ Streaming(r) /\ res[r].writableEnded
        /\ [i \in 1..Len(hist[r].writes) |-> hist[r].writes[i].type]
              = <<"start", "token", "token", "done">>
        /\ res[r].out = hist[r].writes

\* C3 as stated: every validated chat request that has ended appended
\* exactly one assistant message, however it ended.
C3_ExactlyOneAssistantAlways ==
    \A r \in Reqs : (Validated(r) /\ pc[r] = "done") =>
        Cardinality(AssistantTurns(r)) = 1

\* C3, amended: a validated chat request never appends two assistant
\* messages; when it has ended it appended exactly one if upstream was read
\* to its end and every store call succeeded, whether or not the client was
\* still connected, and none if the upstream request failed, a read failed,
\* the parser threw or a store call failed.
C3_OneAssistantIffCompleted ==
    \A r \in Reqs : Validated(r) =>
        /\ Cardinality(AssistantTurns(r)) = hist[r].appended
        /\ hist[r].appended <= 1
        /\ pc[r] = "done" =>
              hist[r].appended = (IF hist[r].cause = "none" THEN 1 ELSE 0)
        /\ hist[r].appended = 1 =>
              /\ hist[r].eof
              /\ \A i \in AssistantTurns(r) : messages[i].content = loc[r].finalMessage

\* The client left while tokens were streamed; upstream was read to its
\* end and the assistant message was appended once.
C3_Witness ==
    \E r \in Reqs :
        /\ Streaming(r) /\ pc[r] = "done" /\ res[r].destroyed
        /\ CountOf(hist[r].writes, {"token"}) >= 1
        /\ Len(res[r].out) < Len(hist[r].writes)
        /\ Cardinality(AssistantTurns(r)) = 1

(***************************************************************************)
(* The final message (Spec)                                                *)
(***************************************************************************)

Blank(text) == text = Absent \/ Trim(text) = <<>>

\* The request stored its assistant turn and answered.
Completed(r) == pc[r] = "done" /\ hist[r].appended = 1

\* What the answer of a completed request carries as the message: the done
\* event, or the JSON body / the returned value when it reached the caller.
Carried(r) ==
    IF Streaming(r) THEN {hist[r].writes[Len(hist[r].writes)].message}
    ELSE IF res[r].body.kind = "chat" THEN {res[r].body.message}
    ELSE {}

\* C4: whenever the text accumulated from upstream is empty or blank, the
\* final message that is persisted and that the done event, the JSON body
\* or the value returned by the Convex action carries is the fallback
\* string; a final message is never the empty string.
C4_BlankGivesFallback ==
    \A r \in Reqs :
        /\ pc[r] = "persist" =>
              /\ loc[r].finalMessage # <<>>
              /\ Blank(loc[r].assistantMessage) => loc[r].finalMessage = Fallback
        /\ Completed(r) =>
              /\ \A i \in AssistantTurns(r) :
                    /\ messages[i].content # <<>>
                    /\ Blank(loc[r].assistantMessage) => messages[i].content = Fallback
              /\ \A m \in Carried(r) :
                    /\ m # <<>>
                    /\ Blank(loc[r].assistantMessage) => m = Fallback
              /\ Streaming(r) => hist[r].writes[Len(hist[r].writes)].type = "done"

\* Upstream sent tokens that are all blanks: the stored turn and the done
\* event carry the fallback.
C4_Witness ==
    \E r \in Reqs :
        /\ Streaming(r) /\ Completed(r)
        /\ loc[r].assistantMessage # <<>>
        /\ Blank(loc[r].assistantMessage)
        /\ Carried(r) = {Fallback}
        /\ \E i \in AssistantTurns(r) : messages[i].content = Fallback

\* C5 as stated: when the accumulated text is not blank, the final message
\* equals the concatenation of the fragments written as token events.
C5_FinalIsConcatenation ==
    \A r \in Reqs : (Streaming(r) /\ Completed(r) /\ ~Blank(loc[r].assistantMessage)) =>
        loc[r].finalMessage = Concat(TokensWritten(hist[r].writes))

\* C5, amended: the accumulated text is at every moment the concatenation of
\* the fragments written as token events, and when it is not blank the final
\* message, persisted and carried by done, is that concatenation with the
\* white space at its two ends removed.
C5_FinalIsTrimmedConcatenation ==
    \A r \in Reqs : Streaming(r) =>
        /\ loc[r].assistantMessage = Concat(TokensWritten(hist[r].writes))
        /\ (Completed(r) /\ ~Blank(loc[r].assistantMessage)) =>
              /\ loc[r].finalMessage = Trim(Concat(TokensWritten(hist[r].writes)))
              /\ Carried(r) = {loc[r].finalMessage}
              /\ \A i \in AssistantTurns(r) : messages[i].content = loc[r].finalMessage

\* The tokens written begin with a blank: the final message is shorter than
\* their concatenation.
C5_Witness ==
    \E r \in Reqs :
        /\ Streaming(r) /\ Completed(r) /\ ~Blank(loc[r].assistantMessage)
        /\ Head(Concat(TokensWritten(hist[r].writes))) = "SP"
        /\ loc[r].finalMessage # Concat(TokensWritten(hist[r].writes))
        /\ loc[r].finalMessage = Trim(Concat(TokensWritten(hist[r].writes)))

(***************************************************************************)
(* The fragments of the whole upstream text, cut without regard to how it  *)
(* arrived                                                                 *)
(***************************************************************************)

\* text.split("\n\n"): the pieces between blank lines; the last piece is
\* what follows the last blank line.
RECURSIVE EventsOf(_)
EventsOf(text) ==
    IF indexOfBoundary(text) = 0 THEN <<text>>
    ELSE <<SubSeq(text, 1, indexOfBoundary(text) - 1)>>
            \o EventsOf(SubSeq(text, indexOfBoundary(text) + 2, Len(text)))

FragmentsOf(events) == Concat([i \in 1..Len(events) |-> processEvent(events[i]).tokens])

\* The fragments of the events that are complete in the text.
CompleteFragments(text) ==
    FragmentsOf(SubSeq(EventsOf(text), 1, Len(EventsOf(text)) - 1))

\* The fragments of the text once upstream has ended: a last piece that is
\* not blank counts as an event.
AllFragments(text) ==
    LET last == EventsOf(text)[Len(EventsOf(text))]
    IN  CompleteFragments(text)
           \o (IF Trim(last) # <<>> THEN processEvent(last).tokens ELSE <<>>)

\* C6: whenever the next upstream read is awaited, the token events written
\* so far are, in order and one event per fragment, the non-empty fragments
\* of the events complete in what upstream has sent; when upstream has
\* ended they are the fragments of everything it sent.  Nothing is dropped,
\* duplicated or reordered.
C6_TokensAreTheFragments ==
    \A r \in Reqs : Streaming(r) =>
        /\ (pc[r] = "read" \/ (pc[r] = "done" /\ hist[r].cause = "read")) =>
              TokensWritten(hist[r].writes) = CompleteFragments(Concat(hist[r].chunks))
        /\ (pc[r] = "persist" \/ Completed(r)) =>
              TokensWritten(hist[r].writes) = AllFragments(Concat(hist[r].chunks))
        /\ \A i \in 1..Len(hist[r].writes) :
              hist[r].writes[i].type = "token" => hist[r].writes[i].token # <<>>

\* Two events came in one read and an event was split over two reads: three
\* tokens are written and the next read is awaited.
C6_Witness ==
    \E r \in Reqs :
        /\ Streaming(r) /\ pc[r] = "read"
        /\ Len(hist[r].chunks) = 3
        /\ hist[r].chunks[1] = <<"data:", "J:b">>
        /\ hist[r].chunks[2] = <<"NL", "NL">>
        /\ TokensWritten(hist[r].writes) = <<<<"b">>, <<"a">>, <<"b">>>>

(***************************************************************************)
(* Requests that are turned away (SpecGate)                                *)
(***************************************************************************)

\* C9: a chat request answered 429, 401 or 400 and an admin request
\* answered 503 or 401 has issued no store mutation and opened no upstream
\* request, and the step that turns a request away leaves the conversations
\* and the messages as they were.
C9_TurnedAwayTouchesNothing ==
    /\ [](\A r \in Reqs : TurnedAway(r) =>
            /\ hist[r].mutations = 0
            /\ hist[r].upstream = 0
            /\ hist[r].appended = 0)
    /\ [][\A r \in Reqs : (~TurnedAway(r) /\ TurnedAway(r)') =>
             /\ conversations' = conversations
             /\ messages' = messages]_vars

\* A request was answered 429 while the request before it went on to store
\* its two turns: the store holds those two messages only.
C9_Witness ==
    \E r, q \in Reqs :
        /\ pc[r] = "done" /\ TurnedAway(r) /\ res[r].statusCode = 429
        /\ hist[r].mutations = 0 /\ hist[r].upstream = 0
        /\ Completed(q)
        /\ Len(messages) = 2 /\ Len(conversations) = 1

(***************************************************************************)
(* The credential check (SpecCred)                                         *)
(***************************************************************************)

\* C10: the credential check gives true exactly when the presented secret
\* has the bytes of the configured one; it never throws; it gives false
\* without running the comparison when the presented secret is absent or
\* empty and when the two byte lengths differ.
C10_TrueIffSameBytes ==
    cred.checked =>
        /\ cred.out.ok <=> /\ cred.presented # Absent
                           /\ BufferFromBytes(cred.presented) = BufferFromBytes(cred.expected)
        /\ ~cred.out.threw
        /\ (cred.presented = Absent \/ cred.presented = <<>>) =>
              ~cred.out.ok /\ ~cred.out.compared
        /\ (cred.presented # Absent
              /\ Len(BufferFromBytes(cred.presented)) # Len(BufferFromBytes(cred.expected))) =>
              ~cred.out.ok /\ ~cred.out.compared

\* The presented secret is the configured one without its last character.
C10_Witness ==
    /\ cred.checked
    /\ cred.presented # Absent
    /\ cred.presented # <<>>
    /\ Len(cred.expected) = Len(cred.presented) + 1
    /\ SubSeq(cred.expected, 1, Len(cred.presented)) = cred.presented
    /\ ~cred.out.ok /\ ~cred.out.compared /\ ~cred.out.threw

(***************************************************************************)
(* The admin credential (SpecGate) and the two chat headers (SpecCred)     *)
(***************************************************************************)

AdminKinds == {"adminList", "adminThread"}

\* C11: when no admin secret is configured, every admin request is answered
\* 503 "not configured" whatever credential it presents, never 401, and no
\* store query is made; when a secret is configured, a request whose
\* credential is missing or has other bytes is answered 401, again with no
\* store query.
C11_Unconfigured503Else401 ==
    \A r \in Reqs : (req[r].kind \in AdminKinds /\ pc[r] # "idle") =>
        /\ env.ADMIN_API_KEY = <<>> =>
              /\ pc[r] = "done"
              /\ res[r].statusCode = 503
              /\ res[r].body = ErrorBody("ADMIN_API_KEY is not configured on this deployment",
                                         FALSE)
              /\ hist[r].queries = 0
        /\ (/\ env.ADMIN_API_KEY # <<>>
            /\ \/ req[r].adminApiKey = Absent
               \/ BufferFromBytes(req[r].adminApiKey) # BufferFromBytes(env.ADMIN_API_KEY)) =>
              /\ pc[r] = "done"
              /\ res[r].statusCode = 401
              /\ res[r].body = ErrorBody("Unauthorized", FALSE)
              /\ hist[r].queries = 0

\* With no secret configured, a request with a credential and a request
\* with none are both answered 503.
C11_Witness ==
    /\ env.ADMIN_API_KEY = <<>>
    /\ \E r, q \in Reqs :
          /\ req[r].kind = "adminThread" /\ req[r].adminApiKey = AdminKey
          /\ req[q].kind = "adminList" /\ req[q].adminApiKey = <<>>
          /\ res[r].statusCode = 503 /\ res[q].statusCode = 503
          /\ hist[r].queries = 0 /\ hist[q].queries = 0

\* C12 as stated: a chat request that carries the configured secret in
\* x-api-key or in x-widget-api-key passes the credential check, whatever
\* the other header holds.
C12_EitherHeaderPasses ==
    (cred.checked /\ (cred.apiKey = cred.expected \/ cred.widgetApiKey = cred.expected))
        => cred.out.ok

(***************************************************************************)
(* SpecBody: one chat request with the right secret and a body drawn from  *)
(* both sides of every limit of chatRequestSchema                          *)
(***************************************************************************)

\* The string of n characters c.
Rep(c, n) == [i \in 1..n |-> c]

\* sessionId: missing, empty, one character, the punctuation of the class,
\* the longest string allowed and one longer, a character outside the
\* class, a blank, a trailing newline, a letter outside ASCII.
BodySessionIds ==
    {Absent, <<>>, <<"a">>, <<".", "_", ":", "-", "0">>,
     Rep("a", MaxSessionIdLength), Rep("a", MaxSessionIdLength + 1),
     <<"a", "!">>, <<"a", "SP">>, <<"a", "NL">>, <<"eacute">>}

\* message: missing, empty, one character, one blank, the longest allowed
\* and one longer.
BodyMessages ==
    {Absent, <<>>, <<"h">>, <<"SP">>,
     Rep("h", MaxMessageLength), Rep("h", MaxMessageLength + 1)}

BodyInputs ==
    {ChatRequest(k, GoodKey, sid, msg) :
        k \in {"stream", "chat"}, sid \in BodySessionIds, msg \in BodyMessages}

InitBody ==
    /\ InitRelay(BaseEnv, {1})
    /\ cred = CredIdle
    /\ widget = WidgetIdle

NextBody ==
    \/ \E r \in Reqs, rq \in BodyInputs : ChatEntry(r, rq)
    \/ \E r \in Reqs : StoreGetOrCreate(r)
    \/ \E r \in Reqs : StoreAddUserMessage(r)
    \/ \E r \in Reqs : StoreGetHistory(r)
    \/ \E r \in Reqs : FetchFails(r)

SpecBody == InitBody /\ [][NextBody]_vars

\* The shape contract of a chat body: a sessionId of 1 to 128 characters of
\* the class [A-Za-z0-9._:-] and a message of 1 to 4000 characters.
BodyAccepted(rq) ==
    /\ rq.sessionId # Absent
    /\ Len(rq.sessionId) \in 1..128
    /\ \A i \in 1..Len(rq.sessionId) : rq.sessionId[i] \in SessionIdChars
    /\ rq.message # Absent
    /\ Len(rq.message) \in 1..4000

\* C13: a chat request, admitted by the rate limiter and carrying the right
\* secret, issues a store call only if its body meets the shape contract;
\* every other body is answered 400 with no store call and no upstream
\* request, and a body that meets the contract is never answered 400.
C13_OnlyValidBodiesReachTheStore ==
    \A r \in Reqs : pc[r] # "idle" =>
        IF BodyAccepted(req[r])
        THEN /\ res[r].statusCode # 400
             /\ pc[r] = "done" => hist[r].mutations >= 1
        ELSE /\ pc[r] = "done"
             /\ res[r].statusCode = 400
             /\ res[r].body = ErrorBody("Invalid request payload", FALSE)
             /\ hist[r].mutations = 0
             /\ hist[r].queries = 0
             /\ hist[r].upstream = 0
             /\ conversations = <<>>
             /\ messages = <<>>

\* A sessionId one character too long, with a message of the greatest
\* length allowed, is answered 400 and the store is empty.
C13_Witness ==
    \E r \in Reqs :
        /\ pc[r] = "done" /\ res[r].statusCode = 400
        /\ Len(req[r].sessionId) = 129
        /\ Len(req[r].message) = 4000
        /\ conversations = <<>> /\ messages = <<>>

(***************************************************************************)
(* Conversations and sessions (SpecGate)                                   *)
(***************************************************************************)

Sessions == {<<"a">>, <<"b">>}

\* The request holds the key getOrCreateConversation gave it.
HasConversation(r) == loc[r].conversationIdRaw # 0

\* C14: from every reachable store and for every session id, two calls of
\* getOrCreateConversation in sequence give the same key and the second
\* leaves the conversations as the first left them; so chat requests with
\* the same session id hold the same key, of a conversation of that
\* session, and there are as many conversations as sessions served.
C14_GetOrCreateIdempotent ==
    /\ \A s \in Sessions, later \in 0..1 :
          LET first == getOrCreateConversation(conversations, s, now)
              second == getOrCreateConversation(first.conversations, s, now + later)
          IN  ~first.threw =>
                 /\ ~second.threw
                 /\ second.id = first.id
                 /\ second.conversations = first.conversations
                 /\ first.conversations[first.id].sessionId = s
    /\ \A r, q \in Reqs :
          (HasConversation(r) /\ HasConversation(q)
             /\ req[r].sessionId = req[q].sessionId) =>
                /\ loc[r].conversationIdRaw = loc[q].conversationIdRaw
                /\ conversations[loc[r].conversationIdRaw].sessionId = req[r].sessionId
    /\ Len(conversations)
          = Cardinality({req[r].sessionId : r \in {q \in Reqs : HasConversation(q)}})

\* A request arrived after the first one on its session had issued its
\* last store call; both were served, in one conversation of four messages.
C14_Witness ==
    \E r, q \in Reqs :
        /\ r # q /\ req[r].sessionId = req[q].sessionId
        /\ Completed(r) /\ Completed(q)
        /\ loc[q].now > loc[r].persistAt
        /\ Len(conversations) = 1
        /\ Len(messages) = 4

\* C15: in every reachable state, under every interleaving of the chat
\* requests, no two conversations have the same session identifier.
C15_OneConversationPerSession ==
    \A i, j \in DOMAIN conversations :
        conversations[i].sessionId = conversations[j].sessionId => i = j

\* Two requests of one session both got their key before either stored its
\* message, and there is one conversation.
C15_Witness ==
    /\ pc[1] = "addUser" /\ pc[2] = "addUser"
    /\ req[1].sessionId = req[2].sessionId
    /\ loc[1].conversationIdRaw = loc[2].conversationIdRaw
    /\ Len(conversations) = 1
    /\ messages = <<>>

(***************************************************************************)
(* SpecReads: the public functions of src/convex/conversations.ts called   *)
(* directly.  addMessage takes the creation timestamp as an argument, so   *)
(* its caller decides the timestamps.  The conversations of the two        *)
(* sessions exist at the start.  req[1] is the query called last since the *)
(* last mutation; loc[1].history is what getHistoryForModel returned and   *)
(* res[1].body what getConversationThread returned.                        *)
(***************************************************************************)

MaxRows == 3
MaxStamp == 1

\* role and content of the messages callers append
Turns == {[role |-> "user", content |-> <<"h">>],
          [role |-> "assistant", content |-> <<"x">>]}

\* limit arguments of getHistoryForModel
Limits == {<<>>} \cup {<<n>> : n \in -1..MaxRows}

QueryCall(fn, conversationId, limit) ==
    [NoRequest EXCEPT !.kind = fn, !.conversationId = conversationId,
                      !.limit = limit]

InitReads ==
    /\ env = BaseEnv
    /\ now = 0
    /\ rateLimitBuckets = [k \in ClientKeys |-> NoBucket]
    /\ conversations =
          getOrCreateConversation(
              getOrCreateConversation(<<>>, <<"a">>, 0).conversations,
              <<"b">>, 0).conversations
    /\ messages = <<>>
    /\ req = [r \in {1} |-> NoRequest]
    /\ pc = [r \in {1} |-> "idle"]
    /\ res = [r \in {1} |-> FreshResponse]
    /\ loc = [r \in {1} |-> FreshLocals]
    /\ hist = [r \in {1} |-> FreshHistory]
    /\ rlLog = <<>>
    /\ cred = CredIdle
    /\ widget = WidgetIdle

\* A caller runs the mutation addMessage.
CallAddMessage(conversationId, turn, createdAt) ==
    /\ Len(messages) < MaxRows
    /\ LET put == addMessage(conversations, messages, conversationId,
                             turn.role, turn.content, createdAt)
       IN  /\ conversations' = put.conversations
           /\ messages' = put.messages
    /\ req' = [req EXCEPT ![1] = NoRequest]
    /\ loc' = [loc EXCEPT ![1] = FreshLocals]
    /\ res' = [res EXCEPT ![1] = FreshResponse]
    /\ UNCHANGED <<env, now, rateLimitBuckets, pc, hist, rlLog, cred, widget>>

\* A caller runs the query getHistoryForModel.
CallGetHistoryForModel(conversationId, limit) ==
    /\ req' = [req EXCEPT ![1] = QueryCall("getHistoryForModel", conversationId, limit)]
    /\ loc' = [loc EXCEPT ![1].history =
                  getHistoryForModel(messages, conversationId, limit)]
    /\ res' = [res EXCEPT ![1] = FreshResponse]
    /\ UNCHANGED <<env, now, rateLimitBuckets, conversations, messages, pc,
                   hist, rlLog, cred, widget>>

\* A caller runs the query getConversationThread.
CallGetConversationThread(conversationId) ==
    /\ req' = [req EXCEPT ![1] = QueryCall("getConversationThread", conversationId, <<>>)]
    /\ loc' = [loc EXCEPT ![1] = FreshLocals]
    /\ res' = [res EXCEPT ![1].body =
                  getConversationThread(conversations, messages, conversationId)]
    /\ UNCHANGED <<env, now, rateLimitBuckets, conversations, messages, pc,
                   hist, rlLog, cred, widget>>

NextReads ==
    \/ \E c \in DOMAIN conversations, turn \in Turns, t \in 0..MaxStamp :
          CallAddMessage(c, turn, t)
    \/ \E c \in DOMAIN conversations, limit \in Limits :
          CallGetHistoryForModel(c, limit)
    \/ \E c \in 1..(Len(conversations) + 1) : CallGetConversationThread(c)

SpecReads == InitReads /\ [][NextReads]_vars

\* The rows of the table that belong to a conversation.
RowsOf(msgs, c) == {i \in DOMAIN msgs : msgs[i].conversationId = c}

\* Row j comes before row i: an earlier creation timestamp, or the same
\* timestamp and an earlier insertion.
ComesBefore(msgs, j, i) ==
    \/ msgs[j].createdAt < msgs[i].createdAt
    \/ (msgs[j].createdAt = msgs[i].createdAt /\ j < i)

\* The rows of a conversation oldest first: the row at position k is the one
\* that k - 1 rows of the conversation come before.
OldestFirst(msgs, c) ==
    [k \in 1..Cardinality(RowsOf(msgs, c)) |->
        msgs[CHOOSE i \in RowsOf(msgs, c) :
                Cardinality({j \in RowsOf(msgs, c) : ComesBefore(msgs, j, i)}) = k - 1]]

RoleAndContent(rows) ==
    [k \in 1..Len(rows) |-> [role |-> rows[k].role, content |-> rows[k].content]]

\* The query called last, on the store as it is.
Asked(fn) == req[1].kind = fn

\* C16: every call of getHistoryForModel returns role and content of the
\* conversation's messages, oldest first: all of them when the limit is
\* absent, zero or negative or is at least their number, and otherwise
\* exactly the last `limit` of them, in the same order and unchanged.
C16_RecentHistoryIsTheLastLimit ==
    Asked("getHistoryForModel") =>
        LET full == RoleAndContent(OldestFirst(messages, req[1].conversationId))
            limit == req[1].limit
            got == loc[1].history
        IN  /\ \A k \in DOMAIN got : DOMAIN got[k] = {"role", "content"}
            /\ IF limit = <<>> \/ limit[1] <= 0 \/ Len(full) <= limit[1]
               THEN got = full
               ELSE /\ Len(got) = limit[1]
                    /\ \A k \in 1..limit[1] :
                          got[k] = full[Len(full) - limit[1] + k]

\* Three messages in one conversation, user, assistant, user, in timestamp
\* order; the history read with limit 2 holds the last two.
C16_Witness ==
    /\ req[1] = QueryCall("getHistoryForModel", 1, <<2>>)
    /\ Len(messages) = 3
    /\ RoleAndContent(messages)
          = <<[role |-> "user", content |-> <<"h">>],
              [role |-> "assistant", content |-> <<"x">>],
              [role |-> "user", content |-> <<"h">>]>>
    /\ \A i \in 1..3 : messages[i].conversationId = 1 /\ messages[i].createdAt = 0
    /\ loc[1].history = <<[role |-> "assistant", content |-> <<"x">>],
                          [role |-> "user", content |-> <<"h">>]>>

\* C17: getConversationThread returns the conversation's messages in
\* non-decreasing order of creation timestamp, equal timestamps in insertion
\* order, and getHistoryForModel returns a tail of that order; a message
\* appended with a timestamp no earlier than those stored is read after all
\* of them, the messages before it as they were read before.
C17_ReadsInCreationOrder ==
    /\ [](Asked("getConversationThread") /\ ~res[1].body.isNull =>
             LET got == res[1].body.messages
             IN  /\ got = OldestFirst(messages, req[1].conversationId)
                 /\ \A p, q \in DOMAIN got :
                       p < q => got[p].createdAt <= got[q].createdAt)
    /\ [](Asked("getHistoryForModel") =>
             LET full == RoleAndContent(OldestFirst(messages, req[1].conversationId))
                 got == loc[1].history
             IN  got = SubSeq(full, Len(full) - Len(got) + 1, Len(full)))
    /\ [][Len(messages') = Len(messages) + 1 =>
             LET new == messages'[Len(messages')]
                 c == new.conversationId
                 before == getConversationThread(conversations, messages, c).messages
                 after == getConversationThread(conversations', messages', c).messages
             IN  (\A i \in RowsOf(messages, c) : messages[i].createdAt <= new.createdAt)
                    => after = Append(before, new)]_vars

\* A thread read of three messages where the message inserted last has the
\* earliest timestamp and is read first, and the other two, of one
\* timestamp, follow in insertion order.
C17_Witness ==
    /\ req[1] = QueryCall("getConversationThread", 1, <<>>)
    /\ Len(messages) = 3
    /\ \A i \in 1..3 : messages[i].conversationId = 1
    /\ messages[1].createdAt = 1 /\ messages[2].createdAt = 1
    /\ messages[3].createdAt = 0
    /\ messages[1] # messages[2]
    /\ ~res[1].body.isNull
    /\ res[1].body.messages = <<messages[3], messages[1], messages[2]>>

(***************************************************************************)
(* The conversation's update timestamp and preview (SpecGate)              *)
(***************************************************************************)

\* C18: in every reachable state a conversation with at least one message
\* has updatedAt equal to the creation timestamp of its most recent message,
\* the last one of its messages in creation order, and lastMessage equal to
\* the first 500 characters of that message's content; a conversation with
\* no message has an empty lastMessage and updatedAt equal to createdAt.
C18_PreviewIsOfMostRecentMessage ==
    \A c \in DOMAIN conversations :
        LET rows == OldestFirst(messages, c)
        IN  IF rows = <<>>
            THEN /\ conversations[c].lastMessage = <<>>
                 /\ conversations[c].updatedAt = conversations[c].createdAt
            ELSE /\ conversations[c].updatedAt = rows[Len(rows)].createdAt
                 /\ conversations[c].lastMessage
                       = SliceTo(rows[Len(rows)].content, PreviewLength)

(***************************************************************************)
(* The upstream parser on framed input (Spec)                              *)
(***************************************************************************)

\* JSON documents of a chunk that carries a text fragment.
TextDocs == {"J:a", "J:b", "J:SP"}

RECURSIVE SkipSpaces(_)
SkipSpaces(t) == IF t # <<>> /\ Head(t) = "SP" THEN SkipSpaces(Tail(t)) ELSE t

NotFramed == [ok |-> FALSE, fragments |-> <<>>]

\* Framed input: events of one payload line "data:" + a chunk with a text
\* fragment, each ended by a blank line; then nothing, or the sentinel line
\* "data: [DONE]", or one more event that the blank line does not end.
\* fragments are the fragments of the events, in order.
RECURSIVE Framed(_)
Framed(t) ==
    IF t = <<>> THEN [ok |-> TRUE, fragments |-> <<>>]
    ELSE IF Head(t) # "data:" THEN NotFramed
    ELSE LET u == SkipSpaces(Tail(t))
         IN  IF u = <<>> THEN NotFramed
             ELSE IF u[1] \in TextDocs
             THEN IF Len(u) = 1 \/ (Len(u) = 2 /\ u[2] = "NL")
                  THEN [ok |-> TRUE, fragments |-> <<deltaContent(u[1])>>]
                  ELSE IF Len(u) >= 3 /\ u[2] = "NL" /\ u[3] = "NL"
                  THEN [ok |-> Framed(SubSeq(u, 4, Len(u))).ok,
                        fragments |-> <<deltaContent(u[1])>>
                                         \o Framed(SubSeq(u, 4, Len(u))).fragments]
                  ELSE NotFramed
             ELSE IF u[1] = "[DONE]"
             THEN IF Len(u) = 1 \/ (Len(u) = 3 /\ u[2] = "NL" /\ u[3] = "NL")
                  THEN [ok |-> TRUE, fragments |-> <<>>]
                  ELSE NotFramed
             ELSE NotFramed

\* Upstream ended and what it sent to r was framed input.
FramedToTheEnd(r) ==
    /\ req[r].kind \in {"stream", "chat"}
    /\ hist[r].eof
    /\ Framed(Concat(hist[r].chunks)).ok

\* C19: when upstream sent complete events, each with one payload line that
\* carries a text fragment, optionally followed by the [DONE] line or by a
\* last event that no blank line ends, then at the end of the stream the
\* parser has yielded exactly the fragments of those events, in order and
\* each once, the one of the unended last event included, and has not
\* thrown: they are the token events written and the text accumulated.
C19_FramedEventsYieldTheirFragments ==
    \A r \in Reqs : FramedToTheEnd(r) =>
        LET fragments == Framed(Concat(hist[r].chunks)).fragments
        IN  /\ hist[r].cause # "parse"
            /\ loc[r].assistantMessage = Concat(fragments)
            /\ Streaming(r) => TokensWritten(hist[r].writes) = fragments

\* Two complete events came in one read, a third event came without its
\* blank line and the stream ended: three tokens, the request completed.
C19_Witness ==
    \E r \in Reqs :
        /\ Streaming(r) /\ Completed(r)
        /\ hist[r].chunks = << <<"data:", "J:a", "NL", "NL", "data:", "J:b", "NL", "NL">>,
                               <<"data:", "J:b">> >>
        /\ TokensWritten(hist[r].writes) = <<<<"a">>, <<"b">>, <<"b">>>>

(***************************************************************************)
(* Payload lines that carry no fragment (Spec)                             *)
(***************************************************************************)

\* The fragment of a line of upstream text: that of a "data:" line whose
\* payload is a chunk with a text fragment; <<>> for every other line.
FragmentOfLine(rawLine) ==
    LET payload == Trim(Tail(Trim(rawLine)))
    IN  IF Trim(rawLine) # <<>> /\ Head(Trim(rawLine)) = "data:"
           /\ Len(payload) = 1 /\ payload[1] \in TextDocs
        THEN deltaContent(payload[1])
        ELSE <<>>

\* The fragments of the well-formed payload lines of a text, in order.
WellFormedFragments(text) ==
    LET lines == SplitLines(text)
    IN  SelectSeq([i \in 1..Len(lines) |-> FragmentOfLine(lines[i])],
                  LAMBDA f : f # <<>>)

\* C20: a payload line that does not decode as a chunk, or that decodes
\* without a text field, never fails the request: the parser does not
\* throw, and at the end of the stream the tokens written and the text
\* accumulated are those of the well-formed payload lines, in order, as if
\* the other lines were not there.
C20_LinesWithoutFragmentAreSkipped ==
    \A r \in Reqs : req[r].kind \in {"stream", "chat"} =>
        /\ hist[r].cause # "parse"
        /\ hist[r].eof =>
              /\ loc[r].assistantMessage
                    = Concat(WellFormedFragments(Concat(hist[r].chunks)))
              /\ Streaming(r) =>
                    TokensWritten(hist[r].writes)
                       = WellFormedFragments(Concat(hist[r].chunks))

(***************************************************************************)
(* SpecPair: the same submission sent once to each chat endpoint, one      *)
(* after the other, each on a session of its own so that each starts from  *)
(* a store without its conversation; upstream sends the second request     *)
(* the reads it sent the first.                                            *)
(***************************************************************************)

PairInputs(sessionId) ==
    {ChatRequest(kind, GoodKey, sessionId, <<"h">>) : kind \in {"stream", "chat"}}

\* Upstream has more of the first stream to send to the second request.
MoreToReplay == Len(hist[2].chunks) < Len(hist[1].chunks)

InitPair ==
    /\ InitRelay(BaseEnv, {1, 2})
    /\ cred = CredIdle
    /\ widget = WidgetIdle

NextPair ==
    \/ \E rq \in PairInputs(<<"a">>) : ChatEntry(1, rq)
    \/ \E rq \in PairInputs(<<"b">>) :
          pc[1] = "done" /\ rq.kind # req[1].kind /\ ChatEntry(2, rq)
    \/ \E r \in Reqs : StoreGetOrCreate(r)
    \/ \E r \in Reqs : StoreAddUserMessage(r)
    \/ \E r \in Reqs : StoreGetHistory(r)
    \/ \E r \in Reqs : FetchResponds(r)
    \/ \E c \in Chunks : Len(hist[1].chunks) < MaxReads /\ Read(1, c)
    \/ ReadDone(1)
    \/ \E c \in Chunks :
          MoreToReplay /\ c = hist[1].chunks[Len(hist[2].chunks) + 1] /\ Read(2, c)
    \/ hist[1].eof /\ ~MoreToReplay /\ ReadDone(2)
    \/ \E r \in Reqs : StorePersist(r)
    \/ \E r \in Reqs : ClientDisconnect(r)

SpecPair == InitPair /\ [][NextPair]_vars

\* role and content of the messages of the conversation of r, oldest first
TurnsOf(r) == RoleAndContent(OldestFirst(messages, loc[r].conversationIdRaw))

\* C21: when the same submission went to the streaming and to the
\* non-streaming endpoint and upstream sent both the same reads, both
\* computed the same final message and left the same in the store: one
\* conversation each, with one user turn and, when upstream was read to its
\* end, one assistant turn of identical content; what reached the clients
\* as the message is the same.  The non-streaming handler sends nothing
\* before it ends, and its 200 body is sent only when upstream was read to
\* its end and the assistant turn is stored.
C21_BothEndpointsSameOutcome ==
    /\ (pc[1] = "done" /\ pc[2] = "done") =>
          /\ hist[1].chunks = hist[2].chunks
          /\ loc[1].finalMessage = loc[2].finalMessage
          /\ hist[1].appended = hist[2].appended
          /\ TurnsOf(1) = TurnsOf(2)
          /\ Len(TurnsOf(1)) = 1 + hist[1].appended
          /\ Len(conversations) = 2
          /\ loc[1].conversationIdRaw # loc[2].conversationIdRaw
          /\ Completed(1) <=> Completed(2)
          /\ Completed(1) =>
                Carried(1) \cup Carried(2) \subseteq {loc[1].finalMessage}
    /\ \A r \in Reqs : req[r].kind = "chat" =>
          /\ res[r].out = <<>>
          /\ pc[r] # "done" => ~res[r].headersSent /\ res[r].body.kind = "none"
          /\ res[r].body.kind = "chat" =>
                /\ res[r].statusCode = 200
                /\ hist[r].eof
                /\ hist[r].appended = 1
                /\ TurnsOf(r)[2] = [role |-> "assistant",
                                    content |-> res[r].body.message]

\* The streaming request was served first and the non-streaming one second,
\* from the same three reads; both clients stayed, the done event and the
\* JSON body carry the same message, and both conversations hold the same
\* two turns.
C21_Witness ==
    /\ req[1].kind = "stream" /\ req[2].kind = "chat"
    /\ Completed(1) /\ Completed(2)
    /\ ~res[1].destroyed /\ ~res[2].destroyed
    /\ hist[2].chunks = << <<"data:", "J:b">>, <<"NL", "NL">>,
                           <<"data:", "SP", "J:a", "NL", "NL">> >>
    /\ Carried(1) = {<<"b", "a">>}
    /\ Carried(2) = {<<"b", "a">>}
    /\ TurnsOf(1) = TurnsOf(2)
    /\ Len(TurnsOf(2)) = 2

(***************************************************************************)
(* Failures of admitted chat requests (Spec)                               *)
(***************************************************************************)

\* An await of the handler of r rejected or its parser threw, after the
\* request had passed rate limit, credential and validation.
FailedAfterAdmission(r) ==
    /\ req[r].kind \in {"stream", "chat"}
    /\ hist[r].cause # "none"

GenericError == ErrorBody("Internal server error", FALSE)

\* C22: every failure of an admitted chat request ends with the response
\* ended.  When nothing of the response had been sent, the handler answers
\* with the one JSON body carrying the generic message and writes no error
\* event; when the stream had begun, it writes exactly one error event, as
\* the last event, and sends no JSON body.  A client that is still
\* connected receives that body or that event; no done event is written.
C22_FailureClosesTheResponse ==
    \A r \in Reqs : FailedAfterAdmission(r) =>
        LET ws == hist[r].writes
        IN  /\ pc[r] = "done"
            /\ res[r].writableEnded
            /\ CountOf(ws, {"done"}) = 0
            /\ IF res[r].out = <<>>
               THEN /\ CountOf(ws, {"error"}) = 0
                    /\ res[r].statusCode = 500
                    /\ res[r].destroyed \/ res[r].body = GenericError
                    /\ res[r].body \in {GenericError, [kind |-> "none"]}
               ELSE /\ CountOf(ws, {"error"}) = 1
                    /\ ws[Len(ws)] = ErrorEvent
                    /\ res[r].body.kind = "none"
                    /\ ~res[r].destroyed =>
                          /\ res[r].out = ws
                          /\ res[r].headersSent

\* The parser threw after the start event and one token had reached a
\* client that stays connected: the error event is the third and last line
\* and the response is ended.
C22_Witness ==
    \E r \in Reqs :
        /\ Streaming(r) /\ hist[r].cause = "parse" /\ ~res[r].destroyed
        /\ res[r].writableEnded
        /\ Len(res[r].out) = 3
        /\ res[r].out[2] = TokenEvent(<<"a">>)
        /\ res[r].out[3] = ErrorEvent

\* C23 as stated: every failure of an admitted chat request is answered
\* with status 500, on both endpoints.
C23_FailureIs500OnBothEndpoints ==
    \A r \in Reqs : FailedAfterAdmission(r) => res[r].statusCode = 500

\* C23, amended: a failure of an admitted request is answered with status
\* 500 on the non-streaming endpoint, and on the streaming endpoint when it
\* happens in prepareConversationData, before the stream began (or when
\* the start event never left because the client had gone); once a line of
\* the stream was sent the status stays 200 and the failure, an upstream
\* failure included, is reported by the error event.
C23_FailureIs500UnlessStreamBegun ==
    \A r \in Reqs : FailedAfterAdmission(r) =>
        /\ req[r].kind = "chat" => res[r].statusCode = 500
        /\ Streaming(r) =>
              /\ res[r].statusCode = (IF res[r].out = <<>> THEN 500 ELSE 200)
              /\ hist[r].writes = <<>> => res[r].statusCode = 500
              /\ (hist[r].writes # <<>> /\ ~res[r].destroyed) =>
                    /\ res[r].statusCode = 200
                    /\ res[r].out[Len(res[r].out)] = ErrorEvent

\* The upstream request of a streaming submission failed with the client
\* connected: status 200, the start event and the error event.
C23_Witness ==
    \E r \in Reqs :
        /\ Streaming(r) /\ hist[r].cause = "upstream" /\ ~res[r].destroyed
        /\ res[r].statusCode = 200
        /\ res[r].out = <<StartEvent(loc[r].conversationIdRaw), ErrorEvent>>

\* The user turn of r as addMessage stored it.
UserTurn(r) ==
    [conversationId |-> loc[r].conversationIdRaw, role |-> "user",
     content |-> req[r].message, createdAt |-> loc[r].now]

\* The user turn of r was appended.
UserTurnStored(r) == pc[r] \notin {"idle", "getOrCreate", "addUser"} /\ hist[r].mutations >= 2

\* C24: when an admitted chat request has failed after its user turn was
\* appended, the store holds its conversation and its user message as they
\* were stored and no assistant message of the request; no step ever
\* removes or changes a stored message or removes a conversation, and after
\* the failure the store does not change.
C24_FailureKeepsTheUserTurn ==
    /\ [](\A r \in Reqs : (FailedAfterAdmission(r) /\ UserTurnStored(r)) =>
             /\ hist[r].appended = 0
             /\ AssistantTurns(r) = {}
             /\ loc[r].conversationIdRaw \in DOMAIN conversations
             /\ conversations[loc[r].conversationIdRaw].sessionId = req[r].sessionId
             /\ \E i \in DOMAIN messages : messages[i] = UserTurn(r))
    /\ [][/\ Len(messages') >= Len(messages)
          /\ SubSeq(messages', 1, Len(messages)) = messages
          /\ Len(conversations') >= Len(conversations)
          /\ \A c \in DOMAIN conversations :
                /\ conversations'[c].sessionId = conversations[c].sessionId
                /\ conversations'[c].createdAt = conversations[c].createdAt
          /\ (\A r \in Reqs : pc[r] = "done" /\ hist[r].cause # "none") =>
                <<conversations', messages'>> = <<conversations, messages>>]_vars

\* Upstream was read for two chunks and the next read failed: the store
\* holds the conversation and the user message, nothing else.
C24_Witness ==
    \E r \in Reqs :
        /\ FailedAfterAdmission(r) /\ hist[r].cause = "read"
        /\ Len(hist[r].chunks) = 2
        /\ messages = <<UserTurn(r)>>
        /\ Len(conversations) = 1
        /\ conversations[1].lastMessage = req[r].message

(***************************************************************************)
(* What a failure shows the client (SpecGate)                              *)
(***************************************************************************)

\* The step is the catch block of a chat handler of r answering a rejected
\* await.
ChatCatches(r) ==
    /\ req[r].kind \in {"stream", "chat"}
    /\ pc[r] \notin {"idle", "done"} /\ pc'[r] = "done"
    /\ hist'[r].cause \in {"store", "upstream", "read"}

\* The step is the catch block of an admin handler of r answering.
AdminCatches(r) ==
    /\ req[r].kind \in {"adminList", "adminThread"}
    /\ pc[r] = "adminQuery" /\ pc'[r] = "done"
    /\ res'[r].statusCode \in {400, 500}

\* C25 as stated: what the client receives on a failure is the same
\* whatever the message of the exception, the upstream error body in it
\* included, had been.
C25_AnswerIndependentOfErrorText ==
    [][\A r \in Reqs :
          /\ ChatCatches(r) =>
                \A e \in ErrorTexts : res'[r] = Caught(req[r].kind, Outward(r), e).res
          /\ (AdminCatches(r) /\ req[r].kind = "adminThread") =>
                \A e \in ErrorTexts : res'[r] = adminThreadCaught(res[r], e)]_vars

\* C25, amended: on a failure the client receives nothing of the message of
\* the exception or of the upstream error body: the body is one of two
\* fixed JSON bodies and the error event is the fixed one.  On the chat
\* endpoints the answer is the same whatever that message had been.  On the
\* admin thread endpoint the answer is the same for two messages that both
\* hold "invalid" or both do not, and it is 400 "Invalid conversationId"
\* for the ones and 500 "Internal server error" for the others.
C25_AnswerIsGenericAndChatIndependent ==
    [][\A r \in Reqs :
          /\ ChatCatches(r) =>
                /\ \A e \in ErrorTexts :
                      /\ res'[r] = Caught(req[r].kind, Outward(r), e).res
                      /\ hist'[r].writes = Caught(req[r].kind, Outward(r), e).writes
                /\ res'[r].body \in {GenericError, [kind |-> "none"]}
                /\ \A i \in 1..Len(res'[r].out) :
                      res'[r].out[i].type = "error" => res'[r].out[i] = ErrorEvent
          /\ AdminCatches(r) =>
                /\ res'[r].body \in {GenericError,
                                     ErrorBody("Invalid conversationId", FALSE)}
                /\ res'[r].statusCode = (IF res'[r].body = GenericError THEN 500 ELSE 400)
                /\ req[r].kind = "adminList" => res'[r].statusCode = 500
                /\ req[r].kind = "adminThread" =>
                      /\ \E e \in ErrorTexts : res'[r] = adminThreadCaught(res[r], e)
                      /\ \A e1, e2 \in ErrorTexts :
                            includesInvalid(e1) = includesInvalid(e2) =>
                               adminThreadCaught(res[r], e1) = adminThreadCaught(res[r], e2)
                      /\ \A e \in ErrorTexts :
                            adminThreadCaught(res[r], e).statusCode
                               = (IF includesInvalid(e) THEN 400 ELSE 500)]_vars

\* The upstream request of a non-streaming submission failed and was
\* answered 500 with the generic body, and an admin thread fetch, whose
\* query was rejected, was answered 400.
C25_Witness ==
    \E r, q \in Reqs :
        /\ req[r].kind = "chat" /\ hist[r].cause = "upstream"
        /\ res[r].statusCode = 500 /\ res[r].body = GenericError
        /\ req[q].kind = "adminThread" /\ req[q].conversationId = <<"x">>
        /\ res[q].statusCode = 400
        /\ res[q].body = ErrorBody("Invalid conversationId", FALSE)

(***************************************************************************)
(* The admin thread fetch (SpecGate)                                       *)
(***************************************************************************)

\* The admin thread fetch of r passed requireAdminApiKey and the path
\* parameter check, and the store answered its query.
ThreadFetchAnswered(r) ==
    /\ req[r].kind = "adminThread"
    /\ pc[r] = "done"
    /\ hist[r].queries = 1

\* C26: an authenticated admin thread fetch that the store answered is
\* never answered 500: an identifier of no conversation of the store is
\* answered 404, or 400 when it is malformed.
C26_MissingIs404MalformedIs400 ==
    \A r \in Reqs : ThreadFetchAnswered(r) =>
        LET id == idOfParam(req[r].conversationId)
        IN  /\ res[r].statusCode \in {200, 404, 400}
            /\ id = 0 => res[r].statusCode \in {404, 400}
            /\ (id # 0 /\ id \notin DOMAIN conversations) => res[r].statusCode = 404

(***************************************************************************)
(* Client disconnects (Spec)                                               *)
(***************************************************************************)

\* The client of the streaming request r has closed its connection after
\* the stream had begun: the socket took the start event and is destroyed.
ClientGone(r) ==
    /\ req[r].kind = "stream"
    /\ res[r].destroyed
    /\ res[r].out # <<>>

\* C27: once the client of a streaming request has closed the connection,
\* the handler takes no further chunk from upstream and makes no further
\* writeStreamLine call (token, done or error) for that request.
C27_DisconnectStopsReadsAndWrites ==
    [][\A r \in Reqs : ClientGone(r) =>
          /\ hist'[r].chunks = hist[r].chunks
          /\ hist'[r].writes = hist[r].writes]_vars

\* The assistant turn that r computed is a row of its conversation.
AssistantTurnStored(r) ==
    \E i \in DOMAIN messages :
        messages[i] = [conversationId |-> loc[r].conversationIdRaw,
                       role |-> "assistant",
                       content |-> loc[r].finalMessage,
                       createdAt |-> loc[r].persistAt]

\* C28: a client disconnect never prevents persistence.  Once upstream has
\* reported the end of its stream, a chat request ends without its
\* assistant message in the store only when the parser threw or the store
\* call failed, whether the client was connected or not; and while the
\* append is pending nothing but the append or its failure is left to do.
C28_DisconnectDoesNotPreventPersistence ==
    \A r \in Reqs : (req[r].kind \in {"stream", "chat"} /\ hist[r].eof) =>
        /\ pc[r] \in {"persist", "done"}
        /\ pc[r] = "done" =>
              \/ AssistantTurnStored(r) /\ hist[r].appended = 1
              \/ hist[r].cause \in {"parse", "store"}

\* A streaming request whose client left after the start event, that was
\* read to the end of upstream and has its assistant turn in the store.
C28_Witness ==
    \E r \in Reqs :
        /\ ClientGone(r) /\ pc[r] = "done" /\ hist[r].eof
        /\ hist[r].cause = "none"
        /\ Len(hist[r].chunks) >= 1
        /\ AssistantTurnStored(r)

(***************************************************************************)
(* No retries (Spec)                                                       *)
(***************************************************************************)

\* The calls r's handler has made to the store and to upstream.
CallsOf(r) == <<hist[r].mutations, hist[r].queries, hist[r].upstream>>

\* The error answers r's handler has given: error events and 500 bodies.
ErrorAnswers(r) ==
    CountOf(hist[r].writes, {"error"})
    + (IF res[r].body = GenericError THEN 1 ELSE 0)

\* C29: a chat request opens at most one upstream request and makes each of
\* its store calls at most once.  The step at which a store call or the
\* upstream request fails makes no call and ends the request, and an ended
\* request makes no call and gives no further answer: a failed request has
\* failed once, with one error answer at most.
C29_OneUpstreamRequestNoRetry ==
    /\ [](\A r \in Reqs : req[r].kind \in {"stream", "chat"} =>
            /\ hist[r].upstream <= 1
            /\ hist[r].queries <= 1
            /\ hist[r].mutations <= 3
            /\ hist[r].upstream = 1 <=> pc[r] \in {"fetch", "read", "persist"}
                                        \/ (pc[r] = "done" /\ hist[r].queries = 1)
            /\ hist[r].cause # "none" => pc[r] = "done" /\ ErrorAnswers(r) <= 1
            /\ hist[r].cause = "upstream" =>
                  CallsOf(r) = <<2, 1, 1>> /\ hist[r].chunks = <<>>)
    /\ [][\A r \in Reqs : req[r].kind \in {"stream", "chat"} =>
            /\ (hist[r].cause = "none" /\ hist'[r].cause # "none") =>
                  CallsOf(r)' = CallsOf(r) /\ pc'[r] = "done"
            /\ pc[r] = "done" =>
                  /\ pc'[r] = "done"
                  /\ hist'[r] = hist[r]
                  /\ res'[r] = res[r]]_vars

\* A non-streaming request whose upstream request failed: one upstream
\* request was opened and the answer is the one 500.
C29_Witness ==
    \E r \in Reqs :
        /\ req[r].kind = "chat" /\ pc[r] = "done"
        /\ hist[r].cause = "upstream"
        /\ hist[r].upstream = 1
        /\ res[r].statusCode = 500 /\ ErrorAnswers(r) = 1

(***************************************************************************)
(* The final answer and the append (Spec)                                  *)
(***************************************************************************)

\* The done events r's handler has written.
DoneEvents(r) == {i \in DOMAIN hist[r].writes : hist[r].writes[i].type = "done"}

\* r's handler has given its final answer: a done event, or the 200 body.
Answered(r) ==
    \/ Streaming(r) /\ DoneEvents(r) # {}
    \/ req[r].kind = "chat" /\ res[r].body.kind = "chat"

\* The messages of r's final answers.
AnsweredMessages(r) ==
    IF Streaming(r) THEN {hist[r].writes[i].message : i \in DoneEvents(r)}
    ELSE {res[r].body.message}

\* The append of r's assistant message failed.
AppendFailed(r) == hist[r].eof /\ hist[r].cause = "store"

\* C30: a done event or a 200 JSON body is given only when the append of
\* the assistant message has succeeded, and its message is the content of
\* the stored row; when the append has failed the request has ended with
\* the error answer and without a done event or a 200 body, and the store
\* holds no assistant message of the request.
C30_AnswerOnlyAfterTheAppend ==
    \A r \in Reqs : req[r].kind \in {"stream", "chat"} =>
        /\ Answered(r) =>
              /\ hist[r].appended = 1
              /\ AssistantTurns(r) # {}
              /\ \A i \in AssistantTurns(r) :
                     AnsweredMessages(r) = {messages[i].content}
        /\ AppendFailed(r) =>
              /\ pc[r] = "done" /\ ~Answered(r)
              /\ AssistantTurns(r) = {}
              /\ res[r].statusCode = 500 \/ CountOf(hist[r].writes, {"error"}) = 1

\* A streaming request whose append failed after a token was written: it
\* ended with the error event.
C30_Witness ==
    \E r \in Reqs :
        /\ Streaming(r) /\ AppendFailed(r)
        /\ CountOf(hist[r].writes, {"token"}) >= 1
        /\ hist[r].writes[Len(hist[r].writes)] = ErrorEvent

(***************************************************************************)
(* A first request on a session, end to end (SpecGate)                     *)
(***************************************************************************)

\* No other request that reached the store is on the session of r.
AloneOnSession(r) ==
    \A q \in Reqs \ {r} : Validated(q) => req[q].sessionId # req[r].sessionId

\* The conversation ids that r's handler has told its client.
ToldConversationIds(r) ==
    IF Streaming(r)
    THEN {hist[r].writes[i].conversationId :
             i \in {j \in DOMAIN hist[r].writes :
                       hist[r].writes[j].type \in {"start", "done"}}}
    ELSE IF res[r].body.kind = "chat" THEN {res[r].body.conversationId}
    ELSE {}

\* C31: when a chat request on a session without a conversation has
\* completed, and no other request was served on that session, the store
\* holds exactly one conversation of the session and exactly two messages in
\* it: the user's text with role user, then the non-empty final message
\* with role assistant; the conversationId of start and done (of the JSON
\* body) is the key of that conversation.
C31_FirstRequestLeavesOneConversationTwoMessages ==
    \A r \in Reqs :
        (req[r].kind \in {"stream", "chat"} /\ Completed(r) /\ AloneOnSession(r)) =>
            LET k == loc[r].conversationIdRaw
            IN  /\ {i \in DOMAIN conversations :
                       conversations[i].sessionId = req[r].sessionId} = {k}
                /\ TurnsOf(r) = <<[role |-> "user", content |-> req[r].message],
                                  [role |-> "assistant", content |-> loc[r].finalMessage]>>
                /\ loc[r].finalMessage # <<>>
                /\ ToldConversationIds(r) \subseteq {k}
                /\ Streaming(r) =>
                      /\ hist[r].writes[1] = StartEvent(k)
                      /\ hist[r].writes[Len(hist[r].writes)]
                            = DoneEvent(loc[r].finalMessage, k)
                /\ (~Streaming(r) /\ ~res[r].destroyed) =>
                      res[r].body = ChatBody(k, loc[r].finalMessage)

\* A streaming request completed on session a while a request on session b
\* had created its conversation first: the key told is the second key.
C31_Witness ==
    \E r \in Reqs :
        /\ Streaming(r) /\ Completed(r) /\ AloneOnSession(r)
        /\ loc[r].conversationIdRaw = 2
        /\ Len(res[r].out) = 3
        /\ Len(conversations) = 2

(***************************************************************************)
(* SpecOrder: the checks at the entry of the chat handlers, for requests   *)
(* of one client with every combination of credential and body             *)
(***************************************************************************)

\* Number of requests that arrive.
MaxOrderRequests == 3

\* The credential right, wrong or missing and the body valid or not on the
\* streaming endpoint; the best and the worst request on the other.
OrderInputs ==
    {ChatRequest("stream", key, <<"a">>, msg) :
        key \in {GoodKey, WrongKey, Absent}, msg \in {<<"h">>, <<>>}}
    \cup {ChatRequest("chat", GoodKey, <<"a">>, <<"h">>),
          ChatRequest("chat", Absent, <<"a">>, <<>>)}

InitOrder ==
    /\ \E max \in {1, 2} :
          InitRelay([BaseEnv EXCEPT !.RATE_LIMIT_WINDOW_MS = 1,
                                    !.RATE_LIMIT_MAX_REQUESTS = max],
                    1..MaxOrderRequests)
    /\ cred = CredIdle
    /\ widget = WidgetIdle

NextOrder ==
    \/ \E r \in Reqs, rq \in OrderInputs : ChatEntry(r, rq)
    \/ Tick(MaxTime)

SpecOrder == InitOrder /\ [][NextOrder]_vars

\* The request does not present the configured secret.
BadCredential(rq) ==
    getChatApiKey(rq) = Absent \/ getChatApiKey(rq) # env.WIDGET_API_KEY

\* The requests that have arrived; the r-th decision of the limiter is
\* about request r.
Arrived == {r \in Reqs : pc[r] # "idle"}

\* C32: the checks of a chat request run in the order rate limit,
\* credential, body.  A request that is past the maximum of its window,
\* counting every earlier request of the window whatever answer it got, is
\* answered 429 whatever its credential and body; otherwise one without
\* the right credential is answered 401 whatever its body; otherwise one
\* with an invalid body is answered 400; otherwise it goes on to the store.
\* The bucket counts every request of the window, those answered 401 and
\* 400 included.
C32_RateLimitThenCredentialThenBody ==
    /\ Len(rlLog) = Cardinality(Arrived)
    /\ \A r \in Arrived :
          IF OrdinalInWindow(r) > env.RATE_LIMIT_MAX_REQUESTS
          THEN pc[r] = "done" /\ res[r].statusCode = 429
          ELSE IF BadCredential(req[r])
          THEN pc[r] = "done" /\ res[r].statusCode = 401
          ELSE IF ~BodyAccepted(req[r])
          THEN pc[r] = "done" /\ res[r].statusCode = 400
          ELSE pc[r] = "getOrCreate" /\ ~res[r].headersSent
    /\ \A r \in Arrived : r = Len(rlLog) =>
          rateLimitBuckets[rlLog[r].key].count = OrdinalInWindow(r)

\* With a maximum of 2: a request without credential answered 401, one
\* with an invalid body answered 400, and a third with neither credential
\* nor valid body answered 429 in the same window.
C32_Witness ==
    /\ env.RATE_LIMIT_MAX_REQUESTS = 2
    /\ Arrived = {1, 2, 3}
    /\ res[1].statusCode = 401
    /\ res[2].statusCode = 400
    /\ res[3].statusCode = 429
    /\ BadCredential(req[3]) /\ ~BodyAccepted(req[3])
    /\ BadCredential(req[1]) /\ ~BodyAccepted(req[1])

(***************************************************************************)
(* The order of the steps of a chat request (SpecGate)                     *)
(***************************************************************************)

\* The last n items of a sequence, all of it when it has no more.
LastItems(seq, n) ==
    IF Len(seq) <= n THEN seq ELSE SubSeq(seq, Len(seq) - n + 1, Len(seq))

\* The history window of r's conversation in the store as it is: role and
\* content of its last MAX_HISTORY_MESSAGES messages, oldest first.
WindowNow(r) ==
    LastItems(RoleAndContent(OldestFirst(messages, loc[r].conversationIdRaw)),
              env.MAX_HISTORY_MESSAGES)

\* C33: the steps of a validated chat request come in one order, each
\* after the one before it succeeded: the conversation is resolved, the user
\* turn appended, the history window read, start written (streaming), the
\* upstream request opened with the system instruction followed by exactly
\* that window in order, upstream consumed to its end, the assistant turn
\* appended.  The assistant turn is never appended before upstream's end.
C33_StepsInOrder ==
    /\ [](\A r \in Reqs : Validated(r) =>
            LET k == loc[r].conversationIdRaw
                failed == hist[r].cause # "none"
            IN  /\ pc[r] = "getOrCreate" =>
                      CallsOf(r) = <<0, 0, 0>> /\ ~HasConversation(r) /\ hist[r].writes = <<>>
                /\ pc[r] = "addUser" =>
                      CallsOf(r) = <<1, 0, 0>> /\ HasConversation(r) /\ hist[r].writes = <<>>
                /\ pc[r] = "history" =>
                      CallsOf(r) = <<2, 0, 0>> /\ hist[r].writes = <<>>
                /\ hist[r].mutations >= 1 => k \in DOMAIN conversations
                /\ hist[r].mutations >= 2 =>
                      \E i \in DOMAIN messages : messages[i] = UserTurn(r)
                /\ hist[r].queries = 1 => hist[r].mutations >= 2
                /\ hist[r].upstream = hist[r].queries
                /\ hist[r].upstream = 0 =>
                      hist[r].request = <<>> /\ hist[r].chunks = <<>> /\ ~hist[r].eof
                /\ hist[r].upstream = 1 =>
                      /\ hist[r].request
                            = <<[role |-> "system", content |-> SystemInstruction("stream")]>>
                              \o loc[r].history
                      /\ Streaming(r) => hist[r].writes[1] = StartEvent(k)
                /\ pc[r] \in {"fetch", "read"} =>
                      CallsOf(r) = <<2, 1, 1>> /\ ~hist[r].eof
                /\ pc[r] = "persist" =>
                      CallsOf(r) = <<2, 1, 1>> /\ hist[r].eof /\ ~failed
                /\ hist[r].appended = 1 =>
                      /\ hist[r].eof /\ ~failed /\ pc[r] = "done"
                      /\ CallsOf(r) = <<3, 1, 1>>
                      /\ AssistantTurnStored(r)
                /\ hist[r].appended = 0 => hist[r].mutations <= 2
                /\ (Streaming(r) /\ hist[r].upstream = 0) => hist[r].writes = <<>>)
    /\ [][\A r \in Reqs : Validated(r) =>
            /\ (hist[r].queries = 0 /\ hist'[r].queries = 1) =>
                  /\ pc[r] = "history" /\ pc'[r] = "fetch"
                  /\ loc'[r].history = WindowNow(r)
                  /\ Tail(hist'[r].request) = WindowNow(r)
            /\ hist[r].upstream = 1 =>
                  hist'[r].request = hist[r].request /\ loc'[r].history = loc[r].history
            /\ pc'[r] # pc[r] =>
                  <<pc[r], pc'[r]>> \in
                      {<<"getOrCreate", "addUser">>, <<"addUser", "history">>,
                       <<"history", "fetch">>, <<"fetch", "read">>,
                       <<"read", "persist">>, <<"persist", "done">>}
                      \cup {<<"getOrCreate", "done">>, <<"addUser", "done">>,
                            <<"history", "done">>, <<"fetch", "done">>,
                            <<"read", "done">>}]_vars

\* The second request on a session read its history after the first had
\* completed: its upstream request holds the system instruction and the
\* last two of the three messages, the assistant's and its own; it
\* completed in turn.
C33_Witness ==
    \E r \in Reqs :
        /\ Streaming(r) /\ Completed(r)
        /\ Len(hist[r].request) = 3
        /\ hist[r].request[2].role = "assistant"
        /\ hist[r].request[3] = [role |-> "user", content |-> req[r].message]
        /\ Len(messages) = 4

(***************************************************************************)
(* Two requests race for the conversation of a new session (SpecGate)      *)
(***************************************************************************)

\* The conversations of r's session.
ConversationsOfSession(r) ==
    {i \in DOMAIN conversations : conversations[i].sessionId = req[r].sessionId}

\* r and q are chat requests of one session, both waiting for their
\* getOrCreateConversation, and the session has no conversation.
Racing(r, q) ==
    /\ r # q
    /\ pc[r] = "getOrCreate" /\ pc[q] = "getOrCreate"
    /\ req[r].sessionId = req[q].sessionId
    /\ ConversationsOfSession(r) = {}

\* The getOrCreateConversation of r inserts a conversation.
Inserts(r) ==
    /\ StoreGetOrCreate(r)
    /\ Len(conversations') = Len(conversations) + 1

\* C34 as stated: when two chat requests race for a session without a
\* conversation and the getOrCreateConversation of one has inserted one, the
\* other can still insert its own, which leaves two conversations of the
\* session.
C34_RaceCanLeaveTwoConversations ==
    [][\A r, q \in Reqs :
          (Racing(r, q) /\ pc'[q] = "addUser") => (ENABLED Inserts(r))']_vars

\* C34, amended: two chat requests that race for a session without a
\* conversation leave one conversation of the session.  The
\* getOrCreateConversation that runs first inserts it; the one that runs
\* second inserts nothing and returns the key of the first; no two
\* requests of a session ever hold different keys.
C34_RaceLeavesOneConversation ==
    /\ [](\A r, q \in Reqs :
            (HasConversation(r) /\ HasConversation(q)
               /\ req[r].sessionId = req[q].sessionId) =>
                  /\ ConversationsOfSession(r) = {loc[r].conversationIdRaw}
                  /\ loc[q].conversationIdRaw = loc[r].conversationIdRaw)
    /\ [][\A r \in Reqs : (pc[r] = "getOrCreate" /\ pc'[r] = "addUser") =>
            IF ConversationsOfSession(r) = {}
            THEN /\ Len(conversations') = Len(conversations) + 1
                 /\ loc'[r].conversationIdRaw = Len(conversations')
                 /\ conversations'[Len(conversations')].sessionId = req[r].sessionId
            ELSE /\ conversations' = conversations
                 /\ loc'[r].conversationIdRaw \in ConversationsOfSession(r)]_vars

\* Two requests of one session arrived at the same instant, before either
\* getOrCreateConversation ran; both completed in the one conversation.
C34_Witness ==
    /\ req[1].sessionId = req[2].sessionId
    /\ loc[1].now = loc[2].now
    /\ hist[1].mutations = 1 /\ hist[2].mutations = 1
    /\ conversations[1].createdAt = loc[1].now
    /\ Len(conversations) = 1
    /\ messages = <<>>

(***************************************************************************)
(* SpecSplit: one upstream stream read whole by request 1 and in pieces,   *)
(* cut anywhere between two lexemes, by request 2                          *)
(***************************************************************************)

\* Number of reads in which request 2 is handed the stream.
MaxPieces == 3

\* Upstream streams: two events; an event and one left unterminated; an
\* event of two lines, a blank line more than the boundary and the
\* sentinel; a null payload before an event; a blank token; a null payload
\* left unterminated after an event.
SplitTexts ==
    {<<"data:", "SP", "J:a", "NL", "NL", "data:", "J:b", "NL", "NL">>,
     <<"data:", "J:a", "NL", "NL", "data:", "J:b">>,
     <<"data:", "J:a", "NL", "data:", "J:b", "NL", "NL", "NL",
       "data:", "SP", "[DONE]", "NL", "NL">>,
     <<"data:", "J:null", "NL", "NL", "data:", "J:a", "NL", "NL">>,
     <<"data:", "J:SP", "NL", "NL">>,
     <<"data:", "J:a", "NL", "NL", "data:", "J:null">>}

\* What request 2 has not been handed yet of the stream request 1 read.
Rest ==
    IF hist[1].chunks = <<>> THEN <<>>
    ELSE SubSeq(hist[1].chunks[1], Len(Concat(hist[2].chunks)) + 1,
                Len(hist[1].chunks[1]))

InitSplit ==
    /\ InitRelay(BaseEnv, {1, 2})
    /\ cred = CredIdle
    /\ widget = WidgetIdle

NextSplit ==
    \/ \E rq \in {ChatRequest("stream", GoodKey, <<"a">>, <<"h">>)} : ChatEntry(1, rq)
    \/ \E rq \in {ChatRequest("stream", GoodKey, <<"b">>, <<"h">>)} :
          pc[1] = "done" /\ ChatEntry(2, rq)
    \/ \E r \in Reqs : StoreGetOrCreate(r)
    \/ \E r \in Reqs : StoreAddUserMessage(r)
    \/ \E r \in Reqs : StoreGetHistory(r)
    \/ \E r \in Reqs : FetchResponds(r)
    \/ \E text \in SplitTexts : hist[1].chunks = <<>> /\ Read(1, text)
    \/ hist[1].chunks # <<>> /\ ReadDone(1)
    \/ \E n \in 1..Len(Rest) :
          /\ Len(hist[2].chunks) < MaxPieces
          /\ Len(hist[2].chunks) = MaxPieces - 1 => n = Len(Rest)
          /\ Read(2, SubSeq(Rest, 1, n))
    \/ Rest = <<>> /\ ReadDone(2)
    \/ \E r \in Reqs : StorePersist(r)

SpecSplit == InitSplit /\ [][NextSplit]_vars

\* The sequence s begins the sequence t.
IsPrefix(s, t) == Len(s) <= Len(t) /\ s = SubSeq(t, 1, Len(s))

\* C35: the tokens yielded and the final message depend only on the
\* concatenation of what upstream sent, not on how it was divided into
\* reads.  Request 2, handed in pieces the stream request 1 read in one
\* piece, has at every read yielded a prefix of request 1's tokens, and
\* when it has ended it has yielded the same tokens, computed the same
\* final message and ended the same way.
C35_TokensIndependentOfChunking ==
    LET mine == TokensWritten(hist[2].writes)
        whole == TokensWritten(hist[1].writes)
    IN  /\ pc[2] = "read" => IsPrefix(mine, whole)
        /\ pc[2] \in {"persist", "done"} =>
              /\ mine = whole
              /\ hist[2].cause = hist[1].cause
              /\ hist[2].eof = hist[1].eof
              /\ loc[2].assistantMessage = loc[1].assistantMessage
              /\ loc[2].finalMessage = loc[1].finalMessage
        /\ pc[2] = "done" =>
              /\ hist[2].appended = hist[1].appended
              /\ Len(res[2].out) = Len(res[1].out)

\* Request 2 was handed two events in three pieces, the first cut between
\* the marker and the payload, the second inside the blank line that ends
\* the first event; it yielded a and b like request 1.
C35_Witness ==
    /\ Completed(1) /\ Completed(2)
    /\ Len(hist[2].chunks) = 3
    /\ hist[2].chunks[1] = <<"data:">>
    /\ hist[2].chunks[2] = <<"J:a", "NL">>
    /\ Head(hist[2].chunks[3]) = "NL"
    /\ TokensWritten(hist[2].writes) = <<<<"a">>, <<"b">>>>
    /\ loc[2].finalMessage = <<"a", "b">>

(***************************************************************************)
(* The sentinel (Spec)                                                     *)
(***************************************************************************)

\* The sequence s ends the sequence t.
IsSuffix(s, t) == Len(s) <= Len(t) /\ s = SubSeq(t, Len(t) - Len(s) + 1, Len(t))

\* Where the first sentinel is in what upstream has sent to r (0: nowhere).
SentinelAt(r) ==
    LET text == Concat(hist[r].chunks)
        hits == {i \in 1..Len(text) : text[i] = "[DONE]"}
    IN  IF hits = {} THEN 0 ELSE CHOOSE i \in hits : \A j \in hits : i <= j

\* What upstream has sent to r after the first sentinel.
AfterSentinel(r) ==
    SubSeq(Concat(hist[r].chunks), SentinelAt(r) + 1, Len(Concat(hist[r].chunks)))

\* C36: the [DONE] line is skipped and does not end parsing.  A request
\* that has been sent the sentinel and has not failed goes on reading until
\* upstream ends; the fragments of the events that arrive after the
\* sentinel are written as token events, in order, and are part of the
\* accumulated text and of the final message.
C36_SentinelDoesNotEndParsing ==
    /\ [](\A r \in Reqs : (req[r].kind \in {"stream", "chat"} /\ SentinelAt(r) # 0) =>
            /\ pc[r] = "read" =>
                  /\ IsSuffix(Concat(CompleteFragments(AfterSentinel(r))),
                              loc[r].assistantMessage)
                  /\ Streaming(r) =>
                        IsSuffix(CompleteFragments(AfterSentinel(r)),
                                 TokensWritten(hist[r].writes))
            /\ (pc[r] = "persist" \/ Completed(r)) =>
                  /\ hist[r].eof
                  /\ IsSuffix(Concat(AllFragments(AfterSentinel(r))),
                              loc[r].assistantMessage)
                  /\ loc[r].finalMessage = finalMessageOf(loc[r].assistantMessage)
                  /\ Streaming(r) =>
                        IsSuffix(AllFragments(AfterSentinel(r)),
                                 TokensWritten(hist[r].writes)))
    /\ [][\A r \in Reqs : (req[r].kind \in {"stream", "chat"} /\ pc[r] = "read") =>
            /\ pc'[r] # "read" => (hist'[r].eof \/ hist'[r].cause # "none")
            /\ (hist'[r].chunks # hist[r].chunks /\ hist'[r].cause = "none") =>
                  pc'[r] = "read"]_vars

\* Upstream sent the sentinel first and an event with the fragment a after
\* it: the token a was written and the final message is a.
C36_Witness ==
    \E r \in Reqs :
        /\ Streaming(r) /\ Completed(r)
        /\ hist[r].chunks = <<<<"data:", "SP", "[DONE]", "NL", "NL">>,
                              <<"data:", "SP", "J:a", "NL", "NL">>>>
        /\ TokensWritten(hist[r].writes) = <<<<"a">>>>
        /\ loc[r].finalMessage = <<"a">>

(***************************************************************************)
(* SpecRace: two chat requests with different messages on one session,     *)
(* interleaved at every await while time passes                            *)
(***************************************************************************)

RaceInputs(message) ==
    {ChatRequest(kind, GoodKey, <<"a">>, message) : kind \in {"stream", "chat"}}

InitRace ==
    /\ InitRelay([BaseEnv EXCEPT !.RATE_LIMIT_WINDOW_MS = 1], {1, 2})
    /\ cred = CredIdle
    /\ widget = WidgetIdle

NextRace ==
    \/ \E rq \in RaceInputs(<<"h">>) : ChatEntry(1, rq)
    \/ \E rq \in RaceInputs(<<"j">>) : ChatEntry(2, rq)
    \/ \E r \in Reqs : StoreGetOrCreate(r)
    \/ \E r \in Reqs : StoreAddUserMessage(r)
    \/ \E r \in Reqs : StoreGetHistory(r)
    \/ \E r \in Reqs : FetchResponds(r)
    \/ \E r \in Reqs, c \in GateChunks : Len(hist[r].chunks) < MaxGateReads /\ Read(r, c)
    \/ \E r \in Reqs : ReadDone(r)
    \/ \E r \in Reqs : StorePersist(r)
    \/ Tick(MaxTime)

SpecRace == InitRace /\ [][NextRace]_vars

\* The user message of r as an entry of a history window.
OwnEntry(r) == [role |-> "user", content |-> req[r].message]

\* The rows of r's conversation that follow r's user turn in creation order.
RowsAfterOwn(r) ==
    LET k == loc[r].conversationIdRaw
        own == CHOOSE i \in RowsOf(messages, k) :
                   messages[i].role = "user" /\ messages[i].content = req[r].message
    IN  {j \in RowsOf(messages, k) : ComesBefore(messages, own, j)}

\* The step is r's history read.
ReadsHistory(r) == hist[r].queries = 0 /\ hist'[r].queries = 1

\* C37 as stated: in every interleaving the history window sent upstream
\* for a request has that request's own user message as its last entry.
C37_OwnMessageIsLastInWindow ==
    \A r \in Reqs : hist[r].upstream = 1 =>
        hist[r].request[Len(hist[r].request)] = OwnEntry(r)

\* C37, amended: the history window sent upstream for a request has that
\* request's own user message as its last entry unless a message of another
\* request of the session follows it in creation order when the history is
\* read; the own message is in the window at all exactly when fewer than
\* MAX_HISTORY_MESSAGES messages follow it.  With no other request served
\* on the session nothing follows it.
C37_OwnMessageIsLastUnlessOvertaken ==
    [][\A r \in Reqs : ReadsHistory(r) =>
          LET sent == hist'[r].request
              window == Tail(sent)
          IN  /\ Len(sent) >= 2
              /\ sent[Len(sent)] = OwnEntry(r) <=> RowsAfterOwn(r) = {}
              /\ (\E i \in DOMAIN window : window[i] = OwnEntry(r))
                    <=> Cardinality(RowsAfterOwn(r)) < env.MAX_HISTORY_MESSAGES
              /\ AloneOnSession(r) => RowsAfterOwn(r) = {}]_vars

\* Request 1 stored its message h, request 2 then stored j and was
\* answered a, and then request 1 read its history: the upstream request
\* of request 1 holds j and a and not h.
C37_Witness ==
    /\ hist[1].upstream = 1
    /\ hist[1].request = <<[role |-> "system", content |-> SystemInstruction("stream")],
                           [role |-> "user", content |-> <<"j">>],
                           [role |-> "assistant", content |-> <<"a">>]>>
    /\ req[1].message = <<"h">>

(***************************************************************************)
(* The boundary of the rate-limit window (SpecRate)                        *)
(***************************************************************************)

\* The step is the arrival of a request: the limiter takes a decision.
Decides == Len(rlLog') = Len(rlLog) + 1

\* C38: a bucket created at time t0 has resetAt = t0 + W.  A later request
\* of the key at time t is counted in that bucket iff t <= t0 + W: the
\* bucket keeps its resetAt and its count grows by one, also at exactly
\* t0 + W.  The first request with t > t0 + W replaces the bucket by count 1
\* and resetAt = t + W and is admitted whatever the count was.
C38_WindowBoundary ==
    [][Decides =>
          LET last == rlLog'[Len(rlLog')]
              old == rateLimitBuckets[last.key]
              new == rateLimitBuckets'[last.key]
              W == env.RATE_LIMIT_WINDOW_MS
          IN  /\ last.at = now
              /\ old = NoBucket =>
                    new = [count |-> 1, resetAt |-> now + W] /\ last.within
              /\ (old # NoBucket /\ now <= old.resetAt) =>
                    /\ new = [count |-> old.count + 1, resetAt |-> old.resetAt]
                    /\ last.within <=> new.count <= env.RATE_LIMIT_MAX_REQUESTS
              /\ (old # NoBucket /\ now > old.resetAt) =>
                    new = [count |-> 1, resetAt |-> now + W] /\ last.within
              /\ \A key \in ClientKeys \ {last.key} :
                    rateLimitBuckets'[key] = rateLimitBuckets[key]]_vars

\* With a maximum of 1 and a window of 1: a request at time 0 opens the
\* bucket, a request at exactly time 1 is counted in it and rejected, and a
\* request at time 2 opens a new bucket and is admitted.
C38_Witness ==
    /\ env.RATE_LIMIT_MAX_REQUESTS = 1 /\ env.RATE_LIMIT_WINDOW_MS = 1
    /\ Len(rlLog) = 3
    /\ \A i \in 1..3 : rlLog[i].key = "ipA"
    /\ rlLog[1].at = 0 /\ rlLog[2].at = 1 /\ rlLog[3].at = 2
    /\ VerdictsOf("ipA", rlLog) = <<TRUE, FALSE, TRUE>>
    /\ rateLimitBuckets["ipA"] = [count |-> 1, resetAt |-> 3]

(***************************************************************************)
(* The validation answer in the three configurations (SpecConfig)          *)
(***************************************************************************)

\* The values envSchema admits for NODE_ENV.
Configurations == {"development", "production", "test"}

\* The server starts in one of the configurations.
InitConfig ==
    /\ \E mode \in Configurations :
          InitRelay([BaseEnv EXCEPT !.NODE_ENV = mode], {1})
    /\ cred = CredIdle
    /\ widget = WidgetIdle

NextConfig ==
    \/ \E r \in Reqs, rq \in BodyInputs : ChatEntry(r, rq)
    \/ \E r \in Reqs : StoreGetOrCreate(r)
    \/ \E r \in Reqs : StoreAddUserMessage(r)
    \/ \E r \in Reqs : StoreGetHistory(r)
    \/ \E r \in Reqs : FetchFails(r)

SpecConfig == InitConfig /\ [][NextConfig]_vars

\* C39: the 400 answer of a chat endpoint names the generic error
\* "Invalid request payload" in every configuration; it carries the
\* validation details if and only if the server runs in development, and in
\* production and test the generic error is all the body carries.
C39_DetailsOnlyInDevelopment ==
    \A r \in Reqs : res[r].statusCode = 400 =>
        /\ res[r].body.kind = "error"
        /\ res[r].body.error = "Invalid request payload"
        /\ res[r].body.details <=> env.NODE_ENV = "development"
        /\ env.NODE_ENV \in {"production", "test"} => ~res[r].body.details

\* A body without a message is answered 400 in the test configuration,
\* without details.
C39_Witness ==
    /\ env.NODE_ENV = "test"
    /\ \E r \in Reqs : /\ pc[r] = "done"
                       /\ req[r].message = Absent
                       /\ res[r].statusCode = 400
                       /\ ~res[r].body.details

(***************************************************************************)
(* One submitMessage call of the widget on every short response            *)
(* (SpecWidget)                                                            *)
(***************************************************************************)

\* Reads of the response body per call.
MaxWidgetReads == 3

\* What one read of the response body yields: the start event; a token; a
\* token left unterminated; a line end; an empty token; the done event; a
\* done event with an empty message; the error event; a line that is not
\* JSON; a blank line; the body of the non-streaming endpoint.
WidgetChunks ==
    {<<"W:start", "NL">>, <<"W:token:a", "NL">>, <<"SP", "W:token:b">>,
     <<"NL">>, <<"W:token:", "NL">>, <<"W:done:ab", "NL">>, <<"W:done:", "NL">>,
     <<"W:error", "NL">>, <<"bad", "NL">>, <<"SP", "NL">>, <<"W:chat">>}

InitWidget ==
    /\ InitRelay(BaseEnv, {})
    /\ cred = CredIdle
    /\ widget = WidgetIdle

NextWidget ==
    \/ submitMessage
    \/ \E ok \in BOOLEAN, hasBody \in BOOLEAN : WidgetFetchResolves(ok, hasBody)
    \/ WidgetFetchRejects
    \/ \E chunk \in WidgetChunks : widget.reads < MaxWidgetReads /\ WidgetRead(chunk)
    \/ WidgetReadRejects
    \/ WidgetReadDone

SpecWidget == InitWidget /\ [][NextWidget]_vars

\* The stream carried text: a token, a done message or an error text that
\* is not empty.
CarriedText ==
    \E i \in 1..Len(widget.events) :
        widget.events[i].type \in {"token", "done", "error"} /\ widget.events[i].text # <<>>

\* C40: when submitMessage has finished, the assistant bubble does not show
\* the placeholder: it shows the done message, the error text, the assembled
\* tokens, the fallback text when the stream carried no text, or the failure
\* text; and the input and the send button are enabled.
C40_PlaceholderReplacedInputEnabled ==
    widget.pc = "finished" =>
        /\ widget.bubble # Placeholder
        /\ \/ widget.bubble = FailureText
           \/ widget.bubble = FallbackText /\ ~CarriedText
           \/ CarriedText /\ widget.bubble = widget.assembled
           \/ \E i \in 1..Len(widget.events) :
                 /\ widget.events[i].type \in {"done", "error"}
                 /\ widget.events[i].text # <<>>
                 /\ widget.bubble = widget.events[i].text
        /\ ~widget.sendDisabled
        /\ ~widget.inputDisabled

=============================================================================
